---- MODULE Spec2Model ----
(***************************************************************************)
(* paper-py: a client of a paperless-ng document server                    *)
(* (src/paperpy/paperpy.py).  The model holds the server's data, one       *)
(* PaperClient session, the request log of the operation in progress and   *)
(* the files merge_docs works on.                                          *)
(*                                                                         *)
(* Python values are tagged records: [k |-> "None"], [k |-> "int", v],     *)
(* [k |-> "str", v], [k |-> "list", v], [k |-> "item", v] (a PaperItem),   *)
(* [k |-> "ints", v] (a list of raw identifiers), [k |-> "doc", v] and     *)
(* [k |-> "raise", exc] for an exception leaving the operation.            *)
(* Strings are sequences of one-character strings.                         *)
(***************************************************************************)
EXTENDS Integers, Sequences, FiniteSets, TLC

(* ------------------------------ bounds -------------------------------- *)

\* entities the server holds per kind, at most
MaxEnt == 2
\* pages of a paginated endpoint, at most
MaxPages == 2
\* GET requests one multi_page_get may issue before the model stops following it
MaxGets == 4
\* document identifiers passed to one get_docs call, at most
MaxIds == 2
\* PATCH requests applied by the server in one session, at most
MaxPatches == 1
\* input files of one merge_docs call, at most
MaxFiles == 3

(* --------------------------- Python values ---------------------------- *)

None == [k |-> "None"]
PyInt(n) == [k |-> "int", v |-> n]
PyStr(s) == [k |-> "str", v |-> s]
PyList(s) == [k |-> "list", v |-> s]
PyInts(s) == [k |-> "ints", v |-> s]
PyItem(e) == [k |-> "item", v |-> e]
PyDoc(d) == [k |-> "doc", v |-> d]
Raise(exc) == [k |-> "raise", exc |-> exc]

IsRaise(x) == x.k = "raise"

\* s[a:b] with 0 <= a <= b, Python's clamping slice
Slice(s, a, b) ==
    LET hi == IF b < Len(s) THEN b ELSE Len(s)
    IN IF a >= hi THEN << >> ELSE SubSeq(s, a + 1, hi)

\* str.lower, on the characters the model's strings are made of
LowerChar(c) ==
    CASE c = "A" -> "a"
      [] c = "B" -> "b"
      [] OTHER -> c

Lower(s) == [i \in DOMAIN s |-> LowerChar(s[i])]

RECURSIVE Concat(_)
\* the concatenation of a sequence of sequences
Concat(ss) == IF ss = << >> THEN << >> ELSE Head(ss) \o Concat(Tail(ss))

\* the elements of a sequence
Range(s) == {s[i] : i \in DOMAIN s}

\* sequences over S of length at most n
SeqsUpTo(S, n) == UNION {[1..m -> S] : m \in 0..n}

\* s has no repeated element
Distinct(s) == \A i, j \in DOMAIN s : i # j => s[i] # s[j]

(* --------------------------- MONTH_DICT ------------------------------- *)

MonthKeys ==
    {<<"0","1">>, <<"0","2">>, <<"0","3">>, <<"0","4">>, <<"0","5">>, <<"0","6">>,
     <<"0","7">>, <<"0","8">>, <<"0","9">>, <<"1","0">>, <<"1","1">>, <<"1","2">>}

MONTH_DICT(m) ==
    CASE m = <<"0","1">> -> <<"J","a","n">>
      [] m = <<"0","2">> -> <<"F","e","b">>
      [] m = <<"0","3">> -> <<"M","a","r">>
      [] m = <<"0","4">> -> <<"A","p","r">>
      [] m = <<"0","5">> -> <<"M","a","y">>
      [] m = <<"0","6">> -> <<"J","u","n">>
      [] m = <<"0","7">> -> <<"J","u","l">>
      [] m = <<"0","8">> -> <<"A","u","g">>
      [] m = <<"0","9">> -> <<"S","e","p">>
      [] m = <<"1","0">> -> <<"O","c","t">>
      [] m = <<"1","1">> -> <<"N","o","v">>
      [] m = <<"1","2">> -> <<"D","e","c">>

(* ------------------------------ listify ------------------------------- *)

\* listify(x): a list is returned as it is, anything else becomes [x]
listify(x) ==
    IF x.k = "list" THEN x.v
    ELSE IF x.k = "ints" THEN [i \in DOMAIN x.v |-> PyInt(x.v[i])]
    ELSE <<x>>

(* ------------------------------ PaperItem ----------------------------- *)

\* PaperItem.from_result: the entity of a raw record
ItemFromResult(result) ==
    [id |-> result.id, name |-> result.name, slug |-> result.slug,
     count |-> result.document_count]

\* r == item.id, r an element of listify(result): a raw identifier or None
IdEq(r, item) == r = PyInt(item.id)

RECURSIVE LookupVals(_, _)
\* [item for r in results for item in all_items if r == item.id]
LookupVals(results, all_items) ==
    IF results = << >> THEN << >>
    ELSE SelectSeq(all_items, LAMBDA item : IdEq(Head(results), item))
         \o LookupVals(Tail(results), all_items)

\* PaperItem.from_lookup: the list of matches when there are several, the
\* match itself when there is one, None when there is none
from_lookup(result, all_items) ==
    LET vals == LookupVals(listify(result), all_items)
    IN IF Len(vals) > 1 THEN PyList(vals)
       ELSE IF Len(vals) = 1 THEN PyItem(vals[1])
       ELSE None

(* ------------------------------ PaperDoc ------------------------------ *)

PyBool(b) == [k |-> "bool", v |-> b]

\* PaperDoc.set_date(date) on document d: nothing for None, else the
\* year, month and day are cut out of the date and the month is looked up
\* in MONTH_DICT (a KeyError when it is no key)
set_date(d, date) ==
    IF date = None THEN PyDoc(d)
    ELSE LET month == Slice(date.v, 5, 7)
         IN IF month \notin MonthKeys THEN Raise("KeyError")
            ELSE PyDoc([d EXCEPT !.year = Slice(date.v, 0, 4),
                                 !.month = month,
                                 !.month_str = MONTH_DICT(month),
                                 !.day = Slice(date.v, 8, 10)])

\* str(x) of a raw value: the text of None is "None"
PyStrOf(x) == IF x = None THEN <<"N","o","n","e">> ELSE x.v

\* PaperDoc(): the fields of a fresh document that from_result overwrites
\* or set_date fills in
NewPaperDoc ==
    [id |-> None, title |-> << >>, correspondent |-> None, doc_type |-> None,
     tags |-> PyList(<< >>), created |-> None, added |-> None, asn |-> None,
     original_fn |-> << >>, archive_fn |-> << >>, content |-> None,
     year |-> << >>, month |-> << >>, month_str |-> None, day |-> << >>]

\* PaperDoc.from_result up to d.created: the identifier, the title and the
\* references of raw record r, resolved against the registries that are set
DocFields(r, tags, correspondents, doc_types) ==
    [NewPaperDoc EXCEPT
        !.id = r.id,
        !.title = r.title,
        !.correspondent =
            IF correspondents # None
            THEN from_lookup(r.correspondent, correspondents.v)
            ELSE r.correspondent,
        !.doc_type =
            IF doc_types # None
            THEN from_lookup(r.document_type, doc_types.v)
            ELSE r.document_type,
        !.tags =
            IF tags # None
            THEN from_lookup(PyInts(r.tags), tags.v)
            ELSE PyInts(r.tags),
        !.created = r.created]

\* d.set_date(str(d.created)[:10])
DocDated(d) == set_date(d, PyStr(Slice(PyStrOf(d.created), 0, 10)))

\* PaperDoc.from_result after set_date: the remaining fields of record r
DocRest(r, dated, with_content) ==
    IF IsRaise(dated) THEN dated
    ELSE PyDoc([dated.v EXCEPT
            !.added = r.added,
            !.asn = r.archive_serial_number,
            !.original_fn = r.original_file_name,
            !.archive_fn = r.archived_file_name,
            !.content = IF with_content THEN r.content ELSE None])

\* PaperDoc.from_result(result, tags, correspondents, doc_types, with_content):
\* result is a raw record, or None when the GET that should have brought it
\* failed; a registry is None or a list of entities
PaperDocFromResult(result, tags, correspondents, doc_types, with_content) ==
    IF result = None THEN Raise("TypeError")
    ELSE DocRest(result.v,
                 DocDated(DocFields(result.v, tags, correspondents, doc_types)),
                 with_content)

\* what "for t in self.tags" with t.id or t.name does before any element is
\* compared: None and a single PaperItem are not iterable, a raw identifier
\* has no attribute id or name
TagsIterError(dtags) ==
    CASE dtags.k = "None" -> Raise("TypeError")
      [] dtags.k = "item" -> Raise("TypeError")
      [] dtags.k = "ints" /\ dtags.v # << >> -> Raise("AttributeError")
      [] OTHER -> None

\* any([tag == t.id for t in self.tags]) for an integer tag,
\* any([tag == t.name for t in self.tags]) otherwise
TagOnDoc(tag, dtags) ==
    IF dtags.k = "ints" THEN FALSE
    ELSE IF tag.k = "int" THEN \E i \in DOMAIN dtags.v : tag.v = dtags.v[i].id
    ELSE \E i \in DOMAIN dtags.v : tag.v = dtags.v[i].name

\* a has_tags that is content with one requested tag on the document
has_tags_SomeTag(d, tags) ==
    LET ts == listify(tags)
    IN IF ts = << >> THEN PyBool(TRUE)
       ELSE IF TagsIterError(d.tags) # None THEN TagsIterError(d.tags)
       ELSE PyBool(\E i \in DOMAIN ts : TagOnDoc(ts[i], d.tags))

\* PaperDoc.has_tags(tags): every requested tag is on the document
has_tags(d, tags) ==
    LET ts == listify(tags)
    IN IF ts = << >> THEN PyBool(TRUE)
       ELSE IF TagsIterError(d.tags) # None THEN TagsIterError(d.tags)
       ELSE PyBool(\A i \in DOMAIN ts : TagOnDoc(ts[i], d.tags))

\* PaperDoc.has_any_tags(tags): some requested tag is on the document
has_any_tags(d, tags) ==
    LET ts == listify(tags)
    IN IF ts = << >> THEN PyBool(FALSE)
       ELSE IF TagsIterError(d.tags) # None THEN TagsIterError(d.tags)
       ELSE PyBool(\E i \in DOMAIN ts : TagOnDoc(ts[i], d.tags))

(* ------------------------- PaperClient: lookup ------------------------ *)

\* FirstMatch, mutated: the last match wins
FirstMatch_Last(item, all_items) ==
    LET hits == {i \in DOMAIN all_items :
                    \/ item = all_items[i].name
                    \/ Lower(item) = all_items[i].slug}
    IN IF hits = {} THEN 0
       ELSE CHOOSE i \in hits : \A j \in hits : i >= j

\* the first index of all_items whose entity matches item by name, or by
\* slug against the lowercased item; 0 when there is none
FirstMatch(item, all_items) ==
    LET hits == {i \in DOMAIN all_items :
                    \/ item = all_items[i].name
                    \/ Lower(item) = all_items[i].slug}
    IN IF hits = {} THEN 0
       ELSE CHOOSE i \in hits : \A j \in hits : i <= j

\* PaperClient.lookup_item_id(item, all_items): an integer is returned as it
\* is; a string is looked for in registry order; iterating a registry that
\* is None is a TypeError
lookup_item_id(item, all_items) ==
    IF item.k = "int" THEN item
    ELSE IF all_items = None THEN Raise("TypeError")
    ELSE LET i == FirstMatch(item.v, all_items.v)
         IN IF i = 0 THEN None ELSE PyInt(all_items.v[i].id)

(* ------------------------ PaperClient: query_str ---------------------- *)

DigitChars == <<"0", "1", "2", "3", "4", "5", "6", "7", "8", "9">>

RECURSIVE DecStr(_)
\* "%d" % n for n >= 0
DecStr(n) ==
    IF n < 10 THEN <<DigitChars[n + 1]>>
    ELSE DecStr(n \div 10) \o <<DigitChars[(n % 10) + 1]>>

RECURSIVE Split(_, _)
\* s.split(sep) for a one-character separator
Split(s, sep) ==
    IF \A i \in DOMAIN s : s[i] # sep THEN <<s>>
    ELSE LET i == CHOOSE i \in DOMAIN s :
                      s[i] = sep /\ \A j \in 1..(i - 1) : s[j] # sep
         IN <<SubSeq(s, 1, i - 1)>> \o Split(SubSeq(s, i + 1, Len(s)), sep)

\* s.replace(c, "") for a one-character c
RemoveChar(s, c) == SelectSeq(s, LAMBDA x : x # c)

RECURSIVE RStrip(_, _)
\* s.rstrip(c) for a one-character c
RStrip(s, c) ==
    IF s # << >> /\ s[Len(s)] = c THEN RStrip(SubSeq(s, 1, Len(s) - 1), c) ELSE s

\* the parts query_str appends for the free-text terms
ContentParts(content) ==
    IF content = None THEN << >>
    ELSE LET terms == Split(content.v, ",")
         IN <<<<"q","u","e","r","y","=">>>>
            \o [i \in DOMAIN terms |-> terms[i] \o <<"%","2","0">>]
            \o <<<<"&">>>>

\* an IdPart that emits the key with no value for None
IdPart_EmitsNone(key, itemid) ==
    IF itemid = None THEN <<key \o <<"=", "&">>>>
    ELSE <<key \o <<"=">> \o DecStr(itemid.v) \o <<"&">>>>

\* the part "<key>=<id>&" of a resolved identifier, nothing for None
IdPart(key, itemid) ==
    IF itemid = None THEN << >>
    ELSE <<key \o <<"=">> \o DecStr(itemid.v) \o <<"&">>>>

\* DateParts that need one character more than the part they emit
DateParts_Strict(date) ==
    IF date = None THEN << >>
    ELSE LET dt == RemoveChar(RemoveChar(date.v, "-"), "/")
         IN (IF Len(dt) > 4
             THEN <<<<"c","r","e","a","t","e","d","_","_","y","e","a","r","=">>
                    \o Slice(dt, 0, 4) \o <<"&">>>>
             ELSE << >>)
            \o (IF Len(dt) > 6
                THEN <<<<"c","r","e","a","t","e","d","_","_","m","o","n","t","h","=">>
                       \o Slice(dt, 4, 6) \o <<"&">>>>
                ELSE << >>)
            \o (IF Len(dt) > 8
                THEN <<<<"c","r","e","a","t","e","d","_","_","d","a","y","=">>
                       \o Slice(dt, 6, 8) \o <<"&">>>>
                ELSE << >>)

\* the parts query_str appends for the partial date
DateParts(date) ==
    IF date = None THEN << >>
    ELSE LET dt == RemoveChar(RemoveChar(date.v, "-"), "/")
         IN (IF Len(dt) >= 4
             THEN <<<<"c","r","e","a","t","e","d","_","_","y","e","a","r","=">>
                    \o Slice(dt, 0, 4) \o <<"&">>>>
             ELSE << >>)
            \o (IF Len(dt) >= 6
                THEN <<<<"c","r","e","a","t","e","d","_","_","m","o","n","t","h","=">>
                       \o Slice(dt, 4, 6) \o <<"&">>>>
                ELSE << >>)
            \o (IF Len(dt) >= 8
                THEN <<<<"c","r","e","a","t","e","d","_","_","d","a","y","=">>
                       \o Slice(dt, 6, 8) \o <<"&">>>>
                ELSE << >>)

CorrKey == <<"c","o","r","r","e","s","p","o","n","d","e","n","t","_","_","i","d">>
TypeKey == <<"d","o","c","u","m","e","n","t","_","t","y","p","e","_","_","i","d">>
TagsKey == <<"t","a","g","s","_","_","i","d">>

\* the list s of query_str from the identifiers its lookups returned, or the
\* exception of the first lookup that raised
QueryParts(corrId, typeId, tagIds, content, date) ==
    IF IsRaise(corrId) THEN corrId
    ELSE IF IsRaise(typeId) THEN typeId
    ELSE IF \E i \in DOMAIN tagIds : IsRaise(tagIds[i]) THEN Raise("TypeError")
    ELSE PyList(<<<<"?">>>>
                \o ContentParts(content)
                \o IdPart(CorrKey, corrId)
                \o IdPart(TypeKey, typeId)
                \o Concat([i \in DOMAIN tagIds |-> IdPart(TagsKey, tagIds[i])])
                \o DateParts(date))

\* a QueryJoin that leaves the trailing "&"
QueryJoin_NoStrip(s) ==
    IF IsRaise(s) THEN s
    ELSE IF Len(s.v) > 1 THEN PyStr(Concat(s.v))
    ELSE PyStr(<< >>)

\* "".join(s).rstrip("&") when s holds more than "?", else ""
QueryJoin(s) ==
    IF IsRaise(s) THEN s
    ELSE IF Len(s.v) > 1 THEN PyStr(RStrip(Concat(s.v), "&"))
    ELSE PyStr(<< >>)

\* PaperClient.query_str(correspondent, doc_type, tags, content, date) with the
\* client's registries regs: the query string, or the exception of a lookup
query_str(regs, correspondent, doc_type, tags, content, date) ==
    QueryJoin(
        QueryParts(IF correspondent = None THEN None
                ELSE lookup_item_id(correspondent, regs.correspondents),
                IF doc_type = None THEN None
                ELSE lookup_item_id(doc_type, regs.doc_types),
                IF tags = None THEN << >>
                ELSE [i \in DOMAIN tags.v |-> lookup_item_id(tags.v[i], regs.tags)],
                content, date))

(* ------------------------------- state -------------------------------- *)

VARIABLES
    srvPages,       \* server: endpoint -> its pages, each [results, next]
    srvDocs,        \* server: document id -> raw document record
    tags,           \* client.tags: None or the list of tag entities
    correspondents, \* client.correspondents
    doc_types,      \* client.doc_types
    dry_run,        \* client.dry_run
    pc,             \* "idle", or where multi_page_get stands: "paging", "return"
    call,           \* the operation in progress, or the last one, with its arguments
    results,        \* multi_page_get: results
    next_url,       \* multi_page_get: next_url
    served,         \* the pages the GETs of this multi_page_get brought, in order
    gets,           \* the GET requests of this operation, in order
    patches,        \* the PATCH requests of this operation, in order
    ret,            \* what the last operation returned or raised
    nPatch,         \* PATCH requests the server has applied
    fs              \* the files that exist

vars == <<srvPages, srvDocs, tags, correspondents, doc_types, dry_run, pc, call,
          results, next_url, served, gets, patches, ret, nPatch, fs>>

server == <<srvPages, srvDocs, nPatch>>
registries == <<tags, correspondents, doc_types>>
paging == <<results, next_url, served>>

\* the client's registries, as the operations read them
Regs == [tags |-> tags, correspondents |-> correspondents, doc_types |-> doc_types]

(* ------------------------------ server data --------------------------- *)

sA == <<"A">>
sa == <<"a">>
sAb == <<"A", "b">>
sab == <<"a", "b">>
sB == <<"B">>
sb == <<"b">>

Endpoints == {"tags", "correspondents", "document_types"}

\* a raw entity record of the server
RawEnt(id, name, slug) == [id |-> id, name |-> name, slug |-> slug, document_count |-> 0]

\* a page of a paginated endpoint; next is None or the number of a page
Page(rs, nxt) == [results |-> rs, next |-> nxt]

created1 == <<"2","0","2","0","-","0","2","-","1","5","T","0","9",":","0","0">>

\* a raw document record of the server
RawDoc(id, title, corr, type, ts) ==
    [id |-> id, title |-> title, correspondent |-> corr, document_type |-> type,
     tags |-> ts, created |-> PyStr(created1), added |-> PyStr(created1),
     archive_serial_number |-> None, original_file_name |-> <<"f">>,
     archived_file_name |-> <<"f">>, content |-> PyStr(<<"x">>)]

DocIds == {1, 2, 3}

\* the documents of the server: one without tags, one with one tag, one with two
Docs0 ==
    [d \in DocIds |->
        CASE d = 1 -> RawDoc(1, sA, None, None, << >>)
          [] d = 2 -> RawDoc(2, sAb, PyInt(1), PyInt(1), <<1>>)
          [] d = 3 -> RawDoc(3, sB, PyInt(1), None, <<2, 1>>)]

\* the entities of a small server: three tags on two pages, one correspondent,
\* one document type
Pages0 ==
    [e \in Endpoints |->
        CASE e = "tags" -> <<Page(<<RawEnt(1, sAb, sab)>>, PyInt(2)),
                             Page(<<RawEnt(2, sB, sb), RawEnt(3, sa, sa)>>, None)>>
          [] e = "correspondents" -> <<Page(<<RawEnt(1, sA, sa)>>, None)>>
          [] e = "document_types" -> <<Page(<<RawEnt(1, sB, sb)>>, None)>>]

\* no operation is in progress and none has returned
NoCall == [op |-> "none"]

\* PaperClient.__init__ beside a server holding pages and docs, and files on disk
InitWith(pages, docs, files) ==
    /\ srvPages = pages
    /\ srvDocs = docs
    /\ tags = None
    /\ correspondents = None
    /\ doc_types = None
    /\ dry_run = FALSE
    /\ pc = "idle"
    /\ call = NoCall
    /\ results = << >>
    /\ next_url = None
    /\ served = << >>
    /\ gets = << >>
    /\ patches = << >>
    /\ ret = None
    /\ nPatch = 0
    /\ fs = files

Init == InitWith(Pages0, Docs0, {})

(* --------------------------- PaperClient.get -------------------------- *)

\* the URL get() requests: next_url when there is one, else the endpoint
GetUrl(endpoint, nxt) == IF nxt # None THEN nxt ELSE endpoint

\* the URL of a page of a paginated endpoint, as the server's cursor names it
PageUrl(path, query, n) == [path |-> path, id |-> None, query |-> query, page |-> PyInt(n)]

\* the URL of an endpoint (the first page of a paginated one)
EndpointUrl(path, query) == [path |-> path, id |-> None, query |-> query, page |-> None]

\* "documents/%s/" % d
DocUrl(d) == [path |-> "documents", id |-> PyInt(d), query |-> << >>, page |-> None]

\* the pages of the documents endpoint: the documents in identifier order,
\* two to a page
DocPages ==
    <<Page(<<srvDocs[1], srvDocs[2]>>, PyInt(2)), Page(<<srvDocs[3]>>, None)>>

\* the pages the server holds for a paginated path
TableOf(path) == IF path = "documents" THEN DocPages ELSE srvPages[path]

\* the page the server answers a paginated URL with
PageOf(url) ==
    LET n == IF url.page = None THEN 1 ELSE url.page.v
        pg == TableOf(url.path)[n]
    IN [results |-> pg.results,
        next |-> IF pg.next = None THEN None
                 ELSE PageUrl(url.path, url.query, pg.next.v)]

(* --------------------- PaperClient.multi_page_get --------------------- *)

\* the operations that start with a multi_page_get, and their endpoints
RefreshOps == {"get_tags", "get_correspondents", "get_doc_types"}

EndpointOf(op) ==
    CASE op = "get_tags" -> "tags"
      [] op = "get_correspondents" -> "correspondents"
      [] op = "get_doc_types" -> "document_types"

\* the call of multi_page_get(c.endpoint) by the operation c: results = [],
\* not_done = True, next_url = None
MultiPageGetCall(c) ==
    /\ pc = "idle"
    /\ pc' = "paging"
    /\ call' = c
    /\ UNCHANGED <<server, registries, dry_run, paging, gets, patches, ret, fs>>

\* results.extend(r["results"]), mutated: the page is put in front
ExtendResults_Prepend(rs, r) == r.results \o rs

\* results.extend(r["results"])
ExtendResults(rs, r) == rs \o r.results

\* not_done, mutated: a failed GET does not end the loop
NotDone_FailureGoesOn(ok, r) == ~ok \/ r.next # None

\* not_done after an iteration: the GET succeeded and its cursor is not null
NotDone(ok, r) == ok /\ r.next # None

\* one iteration of the loop of multi_page_get: a GET that the server answers
\* with success (ok) or not; a success extends results and takes the cursor,
\* a failure or a null cursor ends the loop
MultiPageGetStep(ok) ==
    /\ pc = "paging"
    /\ Len(gets) < MaxGets
    /\ LET url == GetUrl(call.endpoint, next_url)
           r == PageOf(url)
       IN /\ gets' = Append(gets, [url |-> url, ok |-> ok])
          /\ pc' = IF NotDone(ok, r) THEN "paging" ELSE "return"
          /\ IF ok
             THEN /\ results' = ExtendResults(results, r)
                  /\ next_url' = r.next
                  /\ served' = Append(served, r.results)
             ELSE UNCHANGED <<results, next_url, served>>
    /\ UNCHANGED <<server, registries, dry_run, call, patches, ret, fs>>

\* get_tags, get_correspondents, get_doc_types after their multi_page_get
\* returned: the registry is replaced by the entities of the results
RefreshReturn ==
    /\ pc = "return"
    /\ call.op \in RefreshOps
    /\ LET items == PyList([i \in DOMAIN results |-> ItemFromResult(results[i])])
       IN /\ tags' = IF call.op = "get_tags" THEN items ELSE tags
          /\ correspondents' = IF call.op = "get_correspondents" THEN items
                               ELSE correspondents
          /\ doc_types' = IF call.op = "get_doc_types" THEN items ELSE doc_types
          /\ ret' = items
    /\ pc' = "done"
    /\ UNCHANGED <<server, dry_run, call, paging, gets, patches, fs>>

\* get_tags(), get_correspondents(), get_doc_types(): the call
Refresh(op) ==
    /\ op \in RefreshOps
    /\ MultiPageGetCall([op |-> op, endpoint |-> EndpointUrl(EndpointOf(op), << >>)])

\* the caller has taken what the operation returned or raised and is ready
\* to call the next one: the record of the finished operation is dropped
Resume ==
    /\ pc = "done"
    /\ pc' = "idle"
    /\ call' = NoCall
    /\ results' = << >>
    /\ next_url' = None
    /\ served' = << >>
    /\ gets' = << >>
    /\ patches' = << >>
    /\ ret' = None
    /\ UNCHANGED <<server, registries, dry_run, fs>>

(* ------------------------ lookup_item_id, called ---------------------- *)

\* the registry of a kind
RegistryOf(kind) ==
    CASE kind = "tags" -> tags
      [] kind = "correspondents" -> correspondents
      [] kind = "document_types" -> doc_types

\* client.lookup_item_id(item, <the registry of kind>)
LookupItemId(item, kind) ==
    /\ pc = "idle"
    /\ call' = [op |-> "lookup_item_id", item |-> item, all_items |-> RegistryOf(kind)]
    /\ ret' = lookup_item_id(item, RegistryOf(kind))
    /\ pc' = "done"
    /\ UNCHANGED <<server, registries, dry_run, paging, gets, patches, fs>>

(* ------------------ the registry under varied server data ------------- *)

EntNames == {sAb, sab, sB}
EntSlugs == {sab, sb, sa}

\* the entity lists a server may hold: identifiers, names and slugs unique
EntLists ==
    {l \in SeqsUpTo({RawEnt(i, n, g) : i \in 1..MaxEnt, n \in EntNames, g \in EntSlugs},
                    MaxEnt) :
        /\ Distinct([i \in DOMAIN l |-> l[i].id])
        /\ Distinct([i \in DOMAIN l |-> l[i].name])
        /\ Distinct([i \in DOMAIN l |-> l[i].slug])}

\* the ways to cut list l into k consecutive pages (some may be empty)
Cuts(l, k) ==
    {c \in [0..k -> 0..Len(l)] :
        /\ c[0] = 0
        /\ c[k] = Len(l)
        /\ \A i \in 1..k : c[i - 1] <= c[i]}

\* the page tables that serve list l page after page; the cursor of the last
\* page is null or leads back to a page
PageTables(l) ==
    UNION {
        {[i \in 1..k |->
            Page(SubSeq(l, c[i - 1] + 1, c[i]),
                 IF i < k THEN PyInt(i + 1) ELSE last)] :
            c \in Cuts(l, k), last \in {None} \cup {PyInt(j) : j \in 1..k}}
        : k \in 1..MaxPages}

\* the strings a caller may look up
LookupItems == {PyStr(n) : n \in EntNames \cup EntSlugs} \cup {PyInt(1)}

InitRegistry ==
    \E l \in EntLists : \E t \in PageTables(l) :
        InitWith([Pages0 EXCEPT !["tags"] = t], Docs0, {})

NextRegistry ==
    \/ Refresh("get_tags")
    \/ \E ok \in BOOLEAN : MultiPageGetStep(ok)
    \/ RefreshReturn
    \/ \E item \in LookupItems : LookupItemId(item, "tags")
    \/ Resume

SpecRegistry == InitRegistry /\ [][NextRegistry]_vars

(* ------------------------ PaperClient.get_docs ------------------------ *)

\* needle in hay, for strings
IsSubstring(needle, hay) ==
    \E i \in 0..(Len(hay) - Len(needle)) :
        \A j \in DOMAIN needle : hay[i + j] = needle[j]

\* PaperDoc.has_title_labels(labels): every comma-separated label occurs in
\* the title, letter case apart
has_title_labels(d, labels) ==
    LET ls == Split(labels.v, ",")
    IN PyBool(\A i \in DOMAIN ls : IsSubstring(Lower(ls[i]), Lower(d.title)))

\* the arguments of get_docs beside doc_id
DocArgs(correspondent, doc_type, ts, title_labels, content_terms, with_content, date, any_tags) ==
    [correspondent |-> correspondent, doc_type |-> doc_type, tags |-> ts,
     title_labels |-> title_labels, content_terms |-> content_terms,
     with_content |-> with_content, date |-> date, any_tags |-> any_tags]

\* get_docs called with doc_id alone
NoArgs == DocArgs(None, None, None, None, None, FALSE, None, None)

\* the outcome of the filters of get_docs, tried in the order tags, any_tags,
\* title_labels: the first that raises or rejects decides
FirstFilter(byTags, byAny, byTitle) ==
    IF IsRaise(byTags) \/ ~byTags.v THEN byTags
    ELSE IF IsRaise(byAny) \/ ~byAny.v THEN byAny
    ELSE byTitle

\* the secondary filters of get_docs on the materialized document d: whether
\* it is kept, or the exception of a filter
PassesFilters(d, args) ==
    FirstFilter(IF args.tags = None THEN PyBool(TRUE) ELSE has_tags(d, args.tags),
                IF args.any_tags = None THEN PyBool(TRUE)
                ELSE has_any_tags(d, args.any_tags),
                IF args.title_labels = None THEN PyBool(TRUE)
                ELSE has_title_labels(d, args.title_labels))

\* one turn of the loop of get_docs on what from_result gave (pd): its
\* exception, or what the filters say of the document
Turn(pd, args) == IF IsRaise(pd) THEN pd ELSE PassesFilters(pd.v, args)

\* the documents of pds at the indices idx
Pick(pds, idx) == [n \in DOMAIN idx |-> pds[idx[n]].v]

\* the loop of get_docs from its turns: the exception of the first turn that
\* raised, else the documents the filters kept, in order
Collect(pds, turns) ==
    IF \E i \in DOMAIN turns : IsRaise(turns[i])
    THEN turns[CHOOSE i \in DOMAIN turns :
                  IsRaise(turns[i]) /\ \A j \in 1..(i - 1) : ~IsRaise(turns[j])]
    ELSE PyList(Pick(pds, SelectSeq([i \in DOMAIN turns |-> i],
                                    LAMBDA i : turns[i].v)))

\* the documents from_result makes of the fetched records
Made(docs, regs, with_content) ==
    [i \in DOMAIN docs |->
        PaperDocFromResult(docs[i], regs.tags, regs.correspondents, regs.doc_types,
                           with_content)]

\* the turns of the loop over the documents pds
Turns(pds, args) == [i \in DOMAIN pds |-> Turn(pds[i], args)]

\* Collect on the documents pds
Kept(pds, args) == Collect(pds, Turns(pds, args))

\* the loop of get_docs over the fetched records docs (None where a GET
\* failed): each is materialized by PaperDoc.from_result and kept when it
\* passes the filters; the first exception ends the loop
Materialize(docs, regs, args) == Kept(Made(docs, regs, args.with_content), args)

\* a raw record as get() returns it
PyRaw(r) == [k |-> "raw", v |-> r]

\* docs.append(self.get(api_str)) for each identifier: the record, or None
\* where the GET failed
FetchedDocs(ids, oks) ==
    [i \in DOMAIN ids |-> IF oks[i] THEN PyRaw(srvDocs[ids[i]]) ELSE None]

\* api_str = "documents/%s/" % (str(d)): the URL of the GET for identifier d;
\* the query string q composed before is overwritten
DocGetUrl(d, q) == DocUrl(d)

\* get_docs(doc_id=ids, ...) after query_str gave q: nothing more when it
\* raised, else one GET for each identifier and the loop over what they brought
DocsByIdsAfter(q, ids, oks, args, regs) ==
    IF IsRaise(q) THEN [gets |-> << >>, ret |-> q]
    ELSE [gets |-> [i \in DOMAIN ids |->
                       [url |-> DocGetUrl(ids[i], q.v), ok |-> oks[i]]],
          ret |-> Materialize(FetchedDocs(ids, oks), regs, args)]

\* get_docs(doc_id=ids, ...): the GETs it issues and what it returns or
\* raises; oks[i] tells whether the GET for ids[i] succeeds
DocsByIds(ids, oks, args, regs) ==
    DocsByIdsAfter(query_str(regs, args.correspondent, args.doc_type, args.tags,
                             args.content_terms, args.date),
                   ids, oks, args, regs)

\* the call of get_docs has run with outcome r
GetDocsDone(c, r) ==
    /\ pc = "idle"
    /\ gets' = r.gets
    /\ ret' = r.ret
    /\ call' = c
    /\ pc' = "done"
    /\ UNCHANGED <<server, registries, dry_run, paging, patches, fs>>

\* get_docs(doc_id=ids, ...)
GetDocsById(ids, oks, args) ==
    /\ ids # << >>
    /\ DOMAIN oks = DOMAIN ids
    /\ GetDocsDone([op |-> "get_docs", doc_id |-> ids, oks |-> oks, args |-> args,
                    regs |-> Regs],
                   DocsByIds(ids, oks, args, Regs))

\* get_docs(...) without doc_id, after query_str gave q: the call of
\* multi_page_get on the composed query, unless composing it raised
GetDocsQueryAfter(q, args) ==
    IF IsRaise(q)
    THEN GetDocsDone([op |-> "get_docs", doc_id |-> << >>, args |-> args,
                      regs |-> Regs],
                     [gets |-> gets, ret |-> q])
    ELSE MultiPageGetCall([op |-> "get_docs",
                           endpoint |-> EndpointUrl("documents", q.v),
                           doc_id |-> << >>, args |-> args, regs |-> Regs])

\* get_docs(...) without doc_id
GetDocsQuery(args) ==
    GetDocsQueryAfter(query_str(Regs, args.correspondent, args.doc_type, args.tags,
                                args.content_terms, args.date),
                      args)

\* get_docs after its multi_page_get returned: the records are materialized
\* and filtered
GetDocsReturn ==
    /\ pc = "return"
    /\ call.op = "get_docs"
    /\ ret' = Materialize([i \in DOMAIN results |-> PyRaw(results[i])], Regs, call.args)
    /\ pc' = "done"
    /\ UNCHANGED <<server, registries, dry_run, call, paging, gets, patches, fs>>

\* PaperClient.__getitem__(key), from what get_docs(doc_id=key) returned:
\* the first document, None when there is none
GetItemOf(r) ==
    IF IsRaise(r) THEN r
    ELSE IF Len(r.v) > 0 THEN PyDoc(r.v[1])
    ELSE None

(* ---------------- PaperClient: PATCH and the set_doc_* calls ----------- *)

\* s is the text of a non-negative integer
IsNumber(s) == s # << >> /\ \A i \in DOMAIN s : s[i] \in Range(DigitChars)

RECURSIVE ParseInt(_)
\* the integer a text of digits stands for
ParseInt(s) ==
    IF s = << >> THEN 0
    ELSE 10 * ParseInt(SubSeq(s, 1, Len(s) - 1))
         + ((CHOOSE n \in 1..10 : DigitChars[n] = s[Len(s)]) - 1)

\* str(x) of an identifier or of None
IdStr(x) == IF x = None THEN <<"N","o","n","e">> ELSE DecStr(x.v)

\* the server accepts the body of a PATCH: identifiers are numbers
ValidPatch(data) ==
    CASE data.field \in {"correspondent", "document_type"} -> IsNumber(data.value)
      [] data.field = "tags" -> \A i \in DOMAIN data.value : IsNumber(data.value[i])
      [] OTHER -> TRUE

\* the document record after the server applied the body of a PATCH
Patched(rec, data) ==
    CASE data.field = "correspondent" ->
            [rec EXCEPT !.correspondent = PyInt(ParseInt(data.value))]
      [] data.field = "document_type" ->
            [rec EXCEPT !.document_type = PyInt(ParseInt(data.value))]
      [] data.field = "tags" ->
            [rec EXCEPT !.tags = [i \in DOMAIN data.value |-> ParseInt(data.value[i])]]
      [] data.field = "created" -> [rec EXCEPT !.created = PyStr(data.value)]
      [] data.field = "title" -> [rec EXCEPT !.title = data.value]

\* what an operation did: the GETs and PATCHes it issued, what it returned
\* or raised, and the documents of the server afterwards
Outcome(g, p, r, docs) == [gets |-> g, patches |-> p, ret |-> r, docs |-> docs]

\* PaperClient.patch when the server applied the body: the documents docs of
\* the server afterwards, and the updated document returned
PatchedOutcome(g, d, data, docs) ==
    Outcome(g, <<[url |-> DocUrl(d), data |-> data]>>,
            PaperDocFromResult(PyRaw(docs[d]), tags, correspondents, doc_types, TRUE),
            docs)

\* PaperClient.patch("documents/%d/" % d, data) after the GETs g: the PATCH
\* succeeds (okP, and the server accepts the body) and the updated document
\* is returned, or it fails and None is returned
PatchOutcome(g, d, data, okP) ==
    IF okP /\ ValidPatch(data)
    THEN PatchedOutcome(g, d, data, [srvDocs EXCEPT ![d] = Patched(srvDocs[d], data)])
    ELSE Outcome(g, <<[url |-> DocUrl(d), data |-> data]>>, None, srvDocs)

\* return self[doc_id] after the GETs g, r being what get_docs(doc_id=d) did
SelfItemAfter(g, r) == Outcome(g \o r.gets, << >>, GetItemOf(r.ret), srvDocs)

\* return self[doc_id] after the GETs g: one more get_docs(doc_id=d)
SelfItemOutcome(g, d, okG) ==
    SelfItemAfter(g, DocsByIds(<<d>>, <<okG>>, NoArgs, Regs))

\* set_doc_correspondent / set_doc_type after lookup_item_id gave itemid
SetIdOutcome(dry, d, field, itemid, okG, okP) ==
    IF IsRaise(itemid) THEN Outcome(<< >>, << >>, itemid, srvDocs)
    ELSE IF itemid = None THEN Outcome(<< >>, << >>, None, srvDocs)
    ELSE IF dry THEN SelfItemOutcome(<< >>, d, okG)
    ELSE PatchOutcome(<< >>, d, [field |-> field, value |-> IdStr(itemid)], okP)

\* set_doc_correspondent(d, correspondent)
SetDocCorrespondentOutcome(dry, d, correspondent, okG, okP) ==
    SetIdOutcome(dry, d, "correspondent",
                 lookup_item_id(correspondent, correspondents), okG, okP)

\* set_doc_type(d, doc_type)
SetDocTypeOutcome(dry, d, doc_type, okG, okP) ==
    SetIdOutcome(dry, d, "document_type", lookup_item_id(doc_type, doc_types),
                 okG, okP)

TimeSuffix == <<"T","1","2",":","0","0",":","0","0","-","0","5",":","0","0">>

\* set_doc_created_date(d, date)
SetDocCreatedDateOutcome(dry, d, date, okG, okP) ==
    IF date = None THEN Outcome(<< >>, << >>, None, srvDocs)
    ELSE IF dry THEN SelfItemOutcome(<< >>, d, okG)
    ELSE PatchOutcome(<< >>, d, [field |-> "created",
                                 value |-> date.v \o TimeSuffix], okP)

\* set_doc_title, mutated: the PATCH is sent whatever dry_run says
SetDocTitleOutcome_NoDryRun(dry, d, title, okG, okP) ==
    IF title = None THEN Outcome(<< >>, << >>, None, srvDocs)
    ELSE PatchOutcome(<< >>, d, [field |-> "title", value |-> title.v], okP)

\* set_doc_title(d, title)
SetDocTitleOutcome(dry, d, title, okG, okP) ==
    IF title = None THEN Outcome(<< >>, << >>, None, srvDocs)
    ELSE IF dry THEN SelfItemOutcome(<< >>, d, okG)
    ELSE PatchOutcome(<< >>, d, [field |-> "title", value |-> title.v], okP)

\* [str(t.id) for t in doc.tags], for tags that can be iterated
TagIdStrs(dtags) ==
    IF dtags.k = "list" THEN [i \in DOMAIN dtags.v |-> DecStr(dtags.v[i].id)]
    ELSE << >>

\* add_doc_tags / remove_doc_tags after get_docs(doc_id=d) did r1: its
\* exception, None unless it returned one document, else that document
OneDoc(r1) ==
    IF IsRaise(r1.ret) THEN r1.ret
    ELSE IF Len(r1.ret.v) # 1 THEN None
    ELSE PyDoc(r1.ret.v[1])

\* add_doc_tags from the identifiers new_ids that lookup_item_id gave for
\* the tags the document lacks
AddNewIds(dry, g, d, doc, new_ids, okG, okP) ==
    IF IsRaise(new_ids[1]) THEN Outcome(g, << >>, new_ids[1], srvDocs)
    ELSE IF dry THEN SelfItemOutcome(g, d, okG)
    ELSE PatchOutcome(g, d,
                      [field |-> "tags",
                       value |-> TagIdStrs(doc.tags)
                                 \o [i \in DOMAIN new_ids |-> IdStr(new_ids[i])]],
                      okP)

\* add_doc_tags from unique_tags, the requested tags the document lacks
AddUniqueTags(dry, g, d, doc, unique_tags, okG, okP) ==
    IF Len(unique_tags) = 0 THEN SelfItemOutcome(g, d, okG)
    ELSE AddNewIds(dry, g, d, doc,
                   [i \in DOMAIN unique_tags |->
                       lookup_item_id(PyStr(unique_tags[i]), tags)],
                   okG, okP)

\* add_doc_tags on the fetched document doc, the requested tags being ts and
\* has1 what doc.has_tags says of the first (the later ones raise as it does)
AddTagsToDoc(dry, g, d, doc, ts, has1, okG, okP) ==
    IF IsRaise(has1) THEN Outcome(g, << >>, has1, srvDocs)
    ELSE AddUniqueTags(dry, g, d, doc,
                       SelectSeq(ts, LAMBDA t : ~has_tags(doc, PyStr(t)).v),
                       okG, okP)

\* add_doc_tags after its get_docs: got is OneDoc of it
AddTagsAfterGet(dry, g, d, got, ts, okG, okP) ==
    IF got.k # "doc" THEN Outcome(g, << >>, got, srvDocs)
    ELSE AddTagsToDoc(dry, g, d, got.v, ts, has_tags(got.v, PyStr(ts[1])), okG, okP)

\* add_doc_tags after get_docs(doc_id=d) did r1
AddTagsAfter(dry, d, r1, ts, okG, okP) ==
    AddTagsAfterGet(dry, r1.gets, d, OneDoc(r1), ts, okG, okP)

\* add_doc_tags(d, tag): ok1 is the status of the GET of get_docs(doc_id=d),
\* okG that of the GET of self[d], okP that of the PATCH
AddDocTagsOutcome(dry, d, tag, ok1, okG, okP) ==
    AddTagsAfter(dry, d, DocsByIds(<<d>>, <<ok1>>, NoArgs, Regs),
                 Split(tag.v, ","), okG, okP)

\* the tags of doc whose identifier is not among new_tags
KeptTags(doc, new_tags) ==
    SelectSeq(doc.tags.v, LAMBDA t : PyInt(t.id) \notin Range(new_tags))

\* remove_doc_tags on the fetched document doc, new_tags being what
\* lookup_item_id gave for the requested tags
RemoveTagsFromDoc(dry, g, d, doc, new_tags, okG, okP) ==
    IF IsRaise(new_tags[1]) THEN Outcome(g, << >>, new_tags[1], srvDocs)
    ELSE IF TagsIterError(doc.tags) # None
         THEN Outcome(g, << >>, TagsIterError(doc.tags), srvDocs)
    ELSE IF dry THEN SelfItemOutcome(g, d, okG)
    ELSE PatchOutcome(g, d,
                      [field |-> "tags",
                       value |-> TagIdStrs(PyList(KeptTags(doc, new_tags)))],
                      okP)

\* remove_doc_tags after its get_docs: got is OneDoc of it
RemoveTagsAfterGet(dry, g, d, got, ts, okG, okP) ==
    IF got.k # "doc" THEN Outcome(g, << >>, got, srvDocs)
    ELSE RemoveTagsFromDoc(dry, g, d, got.v,
                           [i \in DOMAIN ts |-> lookup_item_id(PyStr(ts[i]), tags)],
                           okG, okP)

\* remove_doc_tags after get_docs(doc_id=d) did r1
RemoveTagsAfter(dry, d, r1, ts, okG, okP) ==
    RemoveTagsAfterGet(dry, r1.gets, d, OneDoc(r1), ts, okG, okP)

\* remove_doc_tags(d, tag)
RemoveDocTagsOutcome(dry, d, tag, ok1, okG, okP) ==
    RemoveTagsAfter(dry, d, DocsByIds(<<d>>, <<ok1>>, NoArgs, Regs),
                    Split(tag.v, ","), okG, okP)

\* an operation that may PATCH has run with outcome o
Mutation(c, o) ==
    /\ pc = "idle"
    /\ dry_run \/ nPatch < MaxPatches
    /\ pc' = "done"
    /\ call' = [c EXCEPT !.dry_run = dry_run, !.before = srvDocs]
    /\ gets' = o.gets
    /\ patches' = o.patches
    /\ ret' = o.ret
    /\ srvDocs' = o.docs
    /\ nPatch' = IF o.docs # srvDocs THEN nPatch + 1 ELSE nPatch
    /\ UNCHANGED <<srvPages, registries, dry_run, paging, fs>>

\* the record of a call of an operation that may PATCH
MutCall(op, d, arg, oks) ==
    [op |-> op, doc_id |-> d, arg |-> arg, oks |-> oks, dry_run |-> FALSE,
     before |-> << >>]

SetDocCorrespondent(d, correspondent, okG, okP) ==
    Mutation(MutCall("set_doc_correspondent", d, correspondent, <<TRUE, okG, okP>>),
             SetDocCorrespondentOutcome(dry_run, d, correspondent, okG, okP))

SetDocType(d, doc_type, okG, okP) ==
    Mutation(MutCall("set_doc_type", d, doc_type, <<TRUE, okG, okP>>),
             SetDocTypeOutcome(dry_run, d, doc_type, okG, okP))

SetDocCreatedDate(d, date, okG, okP) ==
    Mutation(MutCall("set_doc_created_date", d, date, <<TRUE, okG, okP>>),
             SetDocCreatedDateOutcome(dry_run, d, date, okG, okP))

SetDocTitle(d, title, okG, okP) ==
    Mutation(MutCall("set_doc_title", d, title, <<TRUE, okG, okP>>),
             SetDocTitleOutcome(dry_run, d, title, okG, okP))

AddDocTags(d, tag, ok1, okG, okP) ==
    Mutation(MutCall("add_doc_tags", d, tag, <<ok1, okG, okP>>),
             AddDocTagsOutcome(dry_run, d, tag, ok1, okG, okP))

RemoveDocTags(d, tag, ok1, okG, okP) ==
    Mutation(MutCall("remove_doc_tags", d, tag, <<ok1, okG, okP>>),
             RemoveDocTagsOutcome(dry_run, d, tag, ok1, okG, okP))

date2 == <<"2","0","2","1","-","1","1","-","0","3">>

(* --------------------------- the session ------------------------------ *)

\* the identifier lists a caller passes to get_docs
IdLists == SeqsUpTo(DocIds, MaxIds) \ {<< >>}

\* the criteria a caller passes to get_docs: none, a correspondent by name,
\* tags by name, a title label
ArgChoices ==
    {NoArgs,
     [NoArgs EXCEPT !.correspondent = PyStr(sA)],
     [NoArgs EXCEPT !.tags = PyList(<<PyStr(sAb)>>)],
     [NoArgs EXCEPT !.title_labels = PyStr(sb)]}

\* client.dry_run = b
SetDryRun(b) ==
    /\ pc = "idle"
    /\ dry_run # b
    /\ dry_run' = b
    /\ UNCHANGED <<server, registries, pc, call, paging, gets, patches, ret, fs>>

Next ==
    \/ \E op \in RefreshOps : Refresh(op)
    \/ \E ok \in BOOLEAN : MultiPageGetStep(ok)
    \/ RefreshReturn
    \/ \E item \in {PyStr(sAb), PyStr(sb), PyInt(2)} :
         \E kind \in Endpoints : LookupItemId(item, kind)
    \/ \E ids \in IdLists : \E oks \in [DOMAIN ids -> BOOLEAN] :
         \E args \in ArgChoices : GetDocsById(ids, oks, args)
    \/ \E args \in ArgChoices : GetDocsQuery(args)
    \/ GetDocsReturn
    \/ \E b \in BOOLEAN : SetDryRun(b)
    \/ \E d \in DocIds : \E okG, okP \in BOOLEAN :
         \/ \E c \in {PyStr(sA), PyStr(sB)} : SetDocCorrespondent(d, c, okG, okP)
         \/ \E t \in {PyStr(sB)} : SetDocType(d, t, okG, okP)
         \/ \E date \in {None, PyStr(date2)} : SetDocCreatedDate(d, date, okG, okP)
         \/ \E title \in {None, PyStr(sb)} : SetDocTitle(d, title, okG, okP)
         \/ \E ok1 \in BOOLEAN : \E tag \in {PyStr(sa), PyStr(sAb)} :
              \/ AddDocTags(d, tag, ok1, okG, okP)
              \/ RemoveDocTags(d, tag, ok1, okG, okP)
    \/ Resume

Spec == Init /\ [][Next]_vars

(* ------------------------------ merge_docs ---------------------------- *)

\* the file names of the working directory
FileNames == {"a", "b", "out"}

date13 == <<"2","0","2","1","-","1","3","-","0","3">>

\* date = ds[0] + "-" + MONTH_DICT[ds[1]] + "-" + ds[2] when the date has three
\* parts: a KeyError when the second is no key of MONTH_DICT
DateOfParts(date, ds) ==
    IF Len(ds) # 3 THEN date
    ELSE IF ds[2] \notin MonthKeys THEN Raise("KeyError")
    ELSE PyStr(ds[1] \o <<"-">> \o MONTH_DICT(ds[2]) \o <<"-">> \o ds[3])

\* the date file_to_image draws: dates of at least 8 characters are split at
\* "-" and rewritten
ImageDate(date) ==
    IF date = None \/ Len(date.v) < 8 THEN date
    ELSE DateOfParts(date, Split(date.v, "-"))

\* the image of file f with the date drawn, unless the date raised
ImageOf(f, drawn) ==
    IF IsRaise(drawn) THEN drawn
    ELSE [k |-> "image", file |-> f, date |-> drawn]

\* file_to_image(f, date): the image of file f with its annotations, or the
\* exception of reading a file that is not there or of a date with a bad month
file_to_image(f, date) ==
    IF f \notin fs THEN Raise("cv2.error") ELSE ImageOf(f, ImageDate(date))

\* zip(files, dates)
Zip(files, dates) ==
    [i \in 1..(IF Len(files) < Len(dates) THEN Len(files) ELSE Len(dates)) |->
        <<files[i], dates[i]>>]

\* [file_to_image(f, d) for f, d in z]
Images(z) == [i \in DOMAIN z |-> file_to_image(z[i][1], z[i][2])]

\* the assembly from images: the first exception of file_to_image, an
\* IndexError for images[0] when there is no image, an OSError when the
\* output cannot be written, None when it was
SaveImages(images, written) ==
    IF \E i \in DOMAIN images : IsRaise(images[i])
    THEN images[CHOOSE i \in DOMAIN images :
                   IsRaise(images[i]) /\ \A j \in 1..(i - 1) : ~IsRaise(images[j])]
    ELSE IF images = << >> THEN Raise("IndexError")
    ELSE IF ~written THEN Raise("OSError")
    ELSE None

\* the assembly of merge_docs, before the clean-up: the exception it raises,
\* None when the output was written. written tells whether the capability
\* that encodes and writes the output succeeds.
Assembly(files, dates, using_images, written) ==
    IF using_images THEN SaveImages(Images(Zip(files, dates)), written)
    ELSE IF \E i \in DOMAIN files : files[i] \notin fs THEN Raise("FileNotFoundError")
    ELSE IF ~written THEN Raise("OSError")
    ELSE None

\* merge_docs up to its clean-up loop, e being what the assembly raised
Assembled(fn, files, e, partial) ==
    /\ pc = "idle"
    /\ call' = [op |-> "merge_docs", fn |-> fn, files |-> files,
                assembled |-> e = None, i |-> 1, before |-> fs]
    /\ ret' = e
    /\ fs' = IF e = None \/ (e = Raise("OSError") /\ partial)
             THEN fs \cup {fn} ELSE fs
    /\ pc' = IF e = None /\ files # << >> THEN "cleanup" ELSE "done"
    /\ UNCHANGED <<server, registries, dry_run, paging, gets, patches>>

\* merge_docs(fn, files, dates, using_images) up to its clean-up loop. A
\* failed write may leave the output file behind (partial).
MergeDocs(fn, files, dates, using_images, written, partial) ==
    Assembled(fn, files, Assembly(files, dates, using_images, written), partial)

\* one turn of "for f in files: os.remove(f)": the file is removed, or
\* os.remove raises because it is not there (any more) or because the system
\* refuses (~ok), which ends merge_docs
MergeRemove(ok) ==
    /\ pc = "cleanup"
    /\ LET f == call.files[call.i]
       IN IF f \in fs /\ ok
          THEN /\ fs' = fs \ {f}
               /\ call' = [call EXCEPT !.i = @ + 1]
               /\ pc' = IF call.i = Len(call.files) THEN "done" ELSE "cleanup"
               /\ ret' = ret
          ELSE /\ ret' = Raise(IF f \in fs THEN "OSError" ELSE "FileNotFoundError")
               /\ pc' = "done"
               /\ UNCHANGED <<fs, call>>
    /\ UNCHANGED <<server, registries, dry_run, paging, gets, patches>>

\* the input files of a merge, and a date for each or for all but the last
MergeFiles == SeqsUpTo({"a", "b"}, MaxFiles)
MergeDates(files) ==
    {[i \in 1..n |-> x] :
        n \in {Len(files), Len(files) - 1} \cap Nat,
        x \in {None, PyStr(date2), PyStr(date13)}}

InitMerge == \E files \in SUBSET FileNames : InitWith(Pages0, Docs0, files)

NextMerge ==
    \/ \E fn \in {"out", "a"} : \E files \in MergeFiles :
         \E dates \in MergeDates(files) : \E using_images, written, partial \in BOOLEAN :
            MergeDocs(fn, files, dates, using_images, written, partial)
    \/ \E ok \in BOOLEAN : MergeRemove(ok)
    \/ Resume

SpecMerge == InitMerge /\ [][NextMerge]_vars

(* ------------------- the session of a client that edits ---------------- *)

\* the calls that may PATCH, with the refreshes they rely on and dry_run
\* switched on and off between them
NextEdit ==
    \/ \E op \in RefreshOps : Refresh(op)
    \/ \E ok \in BOOLEAN : MultiPageGetStep(ok)
    \/ RefreshReturn
    \/ \E b \in BOOLEAN : SetDryRun(b)
    \/ \E d \in DocIds : \E okG, okP \in BOOLEAN :
         \/ \E c \in {PyStr(sA), PyStr(sB)} : SetDocCorrespondent(d, c, okG, okP)
         \/ \E t \in {PyStr(sB)} : SetDocType(d, t, okG, okP)
         \/ \E date \in {None, PyStr(date2)} : SetDocCreatedDate(d, date, okG, okP)
         \/ \E title \in {None, PyStr(sb)} : SetDocTitle(d, title, okG, okP)
         \/ \E ok1 \in BOOLEAN : \E tag \in {PyStr(sa), PyStr(sAb)} :
              \/ AddDocTags(d, tag, ok1, okG, okP)
              \/ RemoveDocTags(d, tag, ok1, okG, okP)
    \/ Resume

SpecEdit == Init /\ [][NextEdit]_vars

(* -------------------- PaperDoc.filename_with_pattern ------------------- *)

\* the longest run of c, d or t that is one token: range(32, 0, -1)
MaxRunLen == 32

\* old occurs in s at index i
OccursAt(s, i, old) ==
    /\ i + Len(old) - 1 <= Len(s)
    /\ \A j \in DOMAIN old : s[i + j - 1] = old[j]

RECURSIVE ReplaceFrom(_, _, _, _)
\* s[i..].replace(old, new): the occurrences of old from left to right, none
\* overlapping another
ReplaceFrom(s, i, old, new) ==
    IF i > Len(s) THEN << >>
    ELSE IF OccursAt(s, i, old) THEN new \o ReplaceFrom(s, i + Len(old), old, new)
    ELSE <<s[i]>> \o ReplaceFrom(s, i + 1, old, new)

\* s.replace(old, new) for a non-empty old
Replace(s, old, new) ==
    IF \E i \in DOMAIN s : OccursAt(s, i, old) THEN ReplaceFrom(s, 1, old, new)
    ELSE s

\* ch * n
Run(ch, n) == [i \in 1..n |-> ch]

\* the state of the loop over the pattern; text is None until a "[" binds it
ScanStart ==
    [k |-> "scan", fmt |-> << >>, in_braces |-> FALSE, text |-> None, chunks |-> << >>]

\* one turn of "for c in pattern": "]" before any "[" reads the unbound text
ScanStep(st, c) ==
    IF c = "[" THEN [st EXCEPT !.in_braces = TRUE, !.text = PyStr(<< >>),
                               !.fmt = @ \o <<" ", "[", "*", "]", " ">>]
    ELSE IF c = "]" THEN IF st.text = None THEN Raise("UnboundLocalError")
                         ELSE [st EXCEPT !.in_braces = FALSE,
                                         !.chunks = Append(@, st.text.v)]
    ELSE IF ~st.in_braces THEN [st EXCEPT !.fmt = Append(@, c)]
    ELSE [st EXCEPT !.text = PyStr(@.v \o <<c>>)]

RECURSIVE ScanFrom(_, _, _)
\* the loop over the pattern from its i-th character
ScanFrom(pattern, i, st) ==
    IF IsRaise(st) \/ i > Len(pattern) THEN st
    ELSE ScanFrom(pattern, i + 1, ScanStep(st, pattern[i]))

\* the replacements of the date tokens, YYYY before YY and MMM before MM
DateTokens(fmt) ==
    Replace(Replace(Replace(Replace(Replace(fmt,
        <<"Y","Y","Y","Y">>, <<" ","*","Y"," ">>),
        <<"Y","Y">>, <<" ","*","y"," ">>),
        <<"M","M","M">>, <<" ","*","M"," ">>),
        <<"M","M">>, <<" ","*","m"," ">>),
        <<"D","D">>, <<" ","*","D"," ">>)

RECURSIVE ReplaceRuns(_, _, _, _)
\* for sz in range(sz, 0, -1): fmt = fmt.replace(ch * sz, " *<mark>%d " % sz);
\* a text without ch is left as it is by every turn
ReplaceRuns(fmt, ch, mark, sz) ==
    IF sz = 0 \/ \A i \in DOMAIN fmt : fmt[i] # ch THEN fmt
    ELSE ReplaceRuns(Replace(fmt, Run(ch, sz),
                             <<" ", "*", mark>> \o DecStr(sz) \o <<" ">>),
                     ch, mark, sz - 1)

RECURSIVE SplitWs(_)
\* s.split(): the maximal runs of characters that are no white space
SplitWs(s) ==
    IF s = << >> THEN << >>
    ELSE IF Head(s) = " " THEN SplitWs(Tail(s))
    ELSE IF \A i \in DOMAIN s : s[i] # " " THEN <<s>>
    ELSE <<SubSeq(s, 1, (CHOOSE i \in DOMAIN s :
                            s[i] = " " /\ \A j \in 1..(i - 1) : s[j] # " ") - 1)>>
         \o SplitWs(SubSeq(s, CHOOSE i \in DOMAIN s :
                                s[i] = " " /\ \A j \in 1..(i - 1) : s[j] # " ",
                           Len(s)))

\* the token program of a scanned pattern
Compile(fmt) ==
    SplitWs(ReplaceRuns(ReplaceRuns(ReplaceRuns(DateTokens(fmt),
                "c", "(", MaxRunLen), "d", ")", MaxRunLen), "t", "^", MaxRunLen))

\* ", ".join of the texts ss
JoinComma(ss) ==
    Concat([i \in DOMAIN ss |-> IF i = 1 THEN ss[i] ELSE <<",", " ">> \o ss[i]])

\* repr(e) of a PaperItem: "%d: %s" % (id, slug)
ReprItem(e) == DecStr(e.id) \o <<":", " ">> \o e.slug

\* str(x) of a reference of a document: of None, of a raw identifier, of a
\* PaperItem (its name), of a list of PaperItems
StrOfRef(x) ==
    CASE x.k = "None" -> <<"N","o","n","e">>
      [] x.k = "int" -> DecStr(x.v)
      [] x.k = "item" -> x.v.name
      [] x.k = "list" -> <<"[">> \o JoinComma([i \in DOMAIN x.v |-> ReprItem(x.v[i])])
                         \o <<"]">>

\* int(s) of a token's tail
IntOf(s) == IF IsNumber(s) THEN PyInt(ParseInt(s)) ELSE Raise("ValueError")

\* a token_fill that cuts the content to one character when tl is 1
Fill_CutsAtOne(tl, content) ==
    IF IsRaise(tl) THEN tl ELSE PyList(<<Slice(content, 0, tl.v)>>)

\* content, or content[:tl] unless tl is 1
Fill(tl, content) ==
    IF IsRaise(tl) THEN tl
    ELSE IF tl.v = 1 THEN PyList(<<content>>)
    ELSE PyList(<<Slice(content, 0, tl.v)>>)

\* token_fill(token, prefix, content)
token_fill(token, prefix, content) ==
    Fill(IntOf(Replace(token, prefix, << >>)), content)

\* str(self.tags[i]) for i in range(n)
TagStrs(dtags, n) ==
    [i \in 1..n |-> IF dtags.k = "ints" THEN DecStr(dtags.v[i]) ELSE dtags.v[i].name]

\* the tags token: min(tl, len(self.tags)) tags; None and a single PaperItem
\* have no len()
TagsFill(tl, dtags) ==
    IF IsRaise(tl) THEN tl
    ELSE IF dtags.k \in {"None", "item"} THEN Raise("TypeError")
    ELSE PyList(TagStrs(dtags, IF tl.v < Len(dtags.v) THEN tl.v ELSE Len(dtags.v)))

\* TokenParts that never moves on from the first bracket text
TokenParts_FirstChunk(token, d, chunks, idx) ==
    CASE token = <<"*","Y">> -> PyList(<<d.year>>)
      [] token = <<"*","y">> -> PyList(<<Slice(d.year, 2, 4)>>)
      [] token = <<"*","M">> -> PyList(<<d.month_str>>)
      [] token = <<"*","m">> -> PyList(<<d.month>>)
      [] token = <<"*","D">> -> PyList(<<d.day>>)
      [] OTHER ->
         IF OccursAt(token, 1, <<"*","(">>)
         THEN token_fill(token, <<"*","(">>, StrOfRef(d.correspondent))
         ELSE IF OccursAt(token, 1, <<"*","^">>)
         THEN TagsFill(IntOf(Replace(token, <<"*","^">>, << >>)), d.tags)
         ELSE IF OccursAt(token, 1, <<"*",")">>)
         THEN token_fill(token, <<"*",")">>, StrOfRef(d.doc_type))
         ELSE IF token = <<"[","*","]">>
         THEN IF idx < Len(chunks) THEN PyList(<<chunks[1]>>)
              ELSE Raise("IndexError")
         ELSE PyList(<<token>>)

\* what one token appends to fn, idx being the number of bracket texts used
TokenParts(token, d, chunks, idx) ==
    CASE token = <<"*","Y">> -> PyList(<<d.year>>)
      [] token = <<"*","y">> -> PyList(<<Slice(d.year, 2, 4)>>)
      [] token = <<"*","M">> -> PyList(<<d.month_str>>)
      [] token = <<"*","m">> -> PyList(<<d.month>>)
      [] token = <<"*","D">> -> PyList(<<d.day>>)
      [] OTHER ->
         IF OccursAt(token, 1, <<"*","(">>)
         THEN token_fill(token, <<"*","(">>, StrOfRef(d.correspondent))
         ELSE IF OccursAt(token, 1, <<"*","^">>)
         THEN TagsFill(IntOf(Replace(token, <<"*","^">>, << >>)), d.tags)
         ELSE IF OccursAt(token, 1, <<"*",")">>)
         THEN token_fill(token, <<"*",")">>, StrOfRef(d.doc_type))
         ELSE IF token = <<"[","*","]">>
         THEN IF idx < Len(chunks) THEN PyList(<<chunks[idx + 1]>>)
              ELSE Raise("IndexError")
         ELSE PyList(<<token>>)

\* fn extended by the parts of one token, or the exception of the token
AppendParts(fn, parts) == IF IsRaise(parts) THEN parts ELSE PyList(fn.v \o parts.v)

RECURSIVE RenderFrom(_, _, _, _, _, _)
\* the loop over the tokens from the i-th, fn being what was appended so far
RenderFrom(tokens, i, idx, d, chunks, fn) ==
    IF IsRaise(fn) \/ i > Len(tokens) THEN fn
    ELSE RenderFrom(tokens, i + 1,
                    IF tokens[i] = <<"[","*","]">> THEN idx + 1 ELSE idx,
                    d, chunks,
                    AppendParts(fn, TokenParts(tokens[i], d, chunks, idx)))

\* "".join(fn)
JoinParts(fn) == IF IsRaise(fn) THEN fn ELSE PyStr(Concat(fn.v))

\* filename_with_pattern after the scan of the pattern
RenderScanned(d, st) ==
    IF IsRaise(st) THEN st
    ELSE JoinParts(RenderFrom(Compile(st.fmt), 1, 0, d, st.chunks, PyList(<< >>)))

\* PaperDoc.filename_with_pattern(pattern) on document d: the file name, or
\* the exception raised
filename_with_pattern(d, pattern) ==
    RenderScanned(d, ScanFrom(pattern, 1, ScanStart))

\* the number of pieces a pattern is composed of, at most
MaxPieces == 2

sAlice == <<"A", "l", "i", "c", "e">>
sBill == <<"B", "i", "l", "l">>

\* a server whose correspondent and document type have names of several
\* characters; every endpoint has one page
PagesF ==
    [e \in Endpoints |->
        CASE e = "tags" -> <<Page(<<RawEnt(1, sAb, sab), RawEnt(2, sB, sb),
                                    RawEnt(3, sa, sa)>>, None)>>
          [] e = "correspondents" ->
               <<Page(<<RawEnt(1, sAlice, Lower(sAlice))>>, None)>>
          [] e = "document_types" -> <<Page(<<RawEnt(1, sBill, Lower(sBill))>>, None)>>]

\* pieces of patterns: runs of token letters, date tokens, a bracketed text
\* holding a token letter and a space, lone brackets, a space and a dash
Pieces ==
    { <<"c">>, <<"c","c","c">>, <<"d">>, <<"t">>, <<"t","t">>,
      <<"Y","Y","Y","Y">>, <<"M","M","M">>,
      <<"[","B"," ","c","]">>, <<"[">>, <<"]">>, <<" ">>, <<"-">> }

\* the other date tokens, and the example "[Bank]_dddc_MMM-YY"
DatePatterns ==
    { <<"Y","Y">>, <<"M","M">>, <<"D","D">>, <<"Y","Y","Y","Y"," ","M","M">>,
      <<"[","B","a","n","k","]","_","d","d","d","c","_","M","M","M","-","Y","Y">>,
      <<"[","Y","Y"," ","t","d","]","-","[","M","M","]","Y","Y","Y","Y","[","]">> }

\* "[Bank]-<run>-YYYY-MM" for the runs of c, d and t up to one beyond the
\* longest that is one token
RunPatterns ==
    { <<"[","B","a","n","k","]","-">> \o Run(ch, n) \o <<"-","Y","Y","Y","Y","-","M","M">> :
        ch \in {"c", "d", "t"}, n \in 1..(MaxRunLen + 1) }

\* the patterns rendered
Patterns ==
    { Concat(ps) : ps \in SeqsUpTo(Pieces, MaxPieces) } \cup DatePatterns \cup RunPatterns

\* doc.filename_with_pattern(pattern) on the i-th document that get_docs
\* returned
FilenameWithPattern(i, pattern) ==
    /\ pc = "done"
    /\ call.op = "get_docs"
    /\ ~IsRaise(ret)
    /\ i \in DOMAIN ret.v
    /\ call' = [op |-> "filename_with_pattern", doc |-> ret.v[i], pattern |-> pattern]
    /\ ret' = filename_with_pattern(ret.v[i], pattern)
    /\ UNCHANGED <<server, registries, dry_run, pc, paging, gets, patches, fs>>

InitFilename == InitWith(PagesF, Docs0, {})

\* a session beside a server that answers every page: it refreshes
\* registries, fetches one document and renders file names of it
NextFilename ==
    \/ \E op \in RefreshOps : Refresh(op)
    \/ MultiPageGetStep(TRUE)
    \/ RefreshReturn
    \/ \E d \in DocIds : GetDocsById(<<d>>, <<TRUE>>, NoArgs)
    \/ \E p \in Patterns : FilenameWithPattern(1, p)
    \/ Resume

SpecFilename == InitFilename /\ [][NextFilename]_vars

(* ------------------ query_str under varied criteria -------------------- *)

sZ == <<"Z">>

\* the arguments of query_str
QueryArgs(correspondent, doc_type, ts, content, date) ==
    [correspondent |-> correspondent, doc_type |-> doc_type, tags |-> ts,
     content |-> content, date |-> date]

\* the partial dates a caller passes: with and without separators, of every
\* length around the ones that decide the parts
QueryDates ==
    { <<"2","0">>,
      <<"2","0","1","9">>,
      <<"2","0","1","9","-","0">>,
      <<"2","0","1","9","-","0","7">>,
      <<"2","0","1","9","/","0","7","/","1">>,
      <<"2","0","1","9","0","7","1","5">>,
      <<"2","0","1","9","-","0","7","-","1","5">> }

\* the free-text terms a caller passes: one, two and three terms
QueryContents == { <<"x">>, <<"x",",","y">>, <<"x",",","y",",","x","y">> }

\* names of correspondents, known and unknown to the server, and an identifier
QueryCorrespondents == {PyStr(sA), PyStr(sZ), PyInt(1)}

\* names of document types, known and unknown
QueryDocTypes == {PyStr(sB), PyStr(sZ)}

\* lists of tags: empty, known names in both orders, an unknown name among
\* known ones, unknown names only
QueryTagLists ==
    {PyList(<< >>), PyList(<<PyStr(sAb)>>), PyList(<<PyStr(sAb), PyStr(sB)>>),
     PyList(<<PyStr(sB), PyStr(sAb)>>), PyList(<<PyStr(sZ), PyStr(sB)>>),
     PyList(<<PyStr(sZ)>>)}

\* the criteria a caller composes queries of: every combination of
\* names, and the terms and dates alone and beside a name
QueryChoices ==
    {QueryArgs(c, t, ts, None, None) :
        c \in {None} \cup QueryCorrespondents, t \in {None} \cup QueryDocTypes,
        ts \in {None} \cup QueryTagLists}
    \cup {QueryArgs(c, None, None, PyStr(x), None) :
            c \in {None, PyStr(sA), PyStr(sZ)}, x \in QueryContents}
    \cup {QueryArgs(None, None, ts, None, PyStr(dt)) :
            ts \in {None, PyList(<<PyStr(sAb)>>), PyList(<<PyStr(sZ)>>)},
            dt \in QueryDates}
    \cup {QueryArgs(PyStr(sA), PyStr(sZ), PyList(<<PyStr(sB)>>), PyStr(x), PyStr(dt)) :
            x \in QueryContents, dt \in QueryDates}

\* client.query_str(correspondent, doc_type, tags, content, date)
QueryStr(a) ==
    /\ pc = "idle"
    /\ call' = [op |-> "query_str", args |-> a, regs |-> Regs]
    /\ ret' = query_str(Regs, a.correspondent, a.doc_type, a.tags, a.content, a.date)
    /\ pc' = "done"
    /\ UNCHANGED <<server, registries, dry_run, paging, gets, patches, fs>>

\* a session that refreshes registries and composes queries
NextQuery ==
    \/ \E op \in RefreshOps : Refresh(op)
    \/ \E ok \in BOOLEAN : MultiPageGetStep(ok)
    \/ RefreshReturn
    \/ \E a \in QueryChoices : QueryStr(a)
    \/ Resume

SpecQuery == Init /\ [][NextQuery]_vars

(* ---------------- the secondary filters of get_docs -------------------- *)

\* the longest list of tags a caller asks a document for
MaxReq == 2

\* the tags a caller asks for: identifiers, names, and a slug that is no name
ReqTags == {PyInt(1), PyInt(3), PyStr(sAb), PyStr(sB), PyStr(sa), PyStr(sab)}

\* the requests of has_tags and has_any_tags: lists of tags, and a single
\* tag that is no list
TagRequests ==
    {PyList(l) : l \in SeqsUpTo(ReqTags, MaxReq)} \cup {PyStr(sAb), PyInt(3)}

\* the last call fetched one document by its identifier, without criteria
FetchedAlone ==
    /\ pc = "done"
    /\ call.op = "get_docs"
    /\ Len(call.doc_id) = 1
    /\ call.args = NoArgs
    /\ ~IsRaise(ret)
    /\ Len(ret.v) = 1

\* doc.has_tags(req) on the document fetched alone
HasTags(req) ==
    /\ FetchedAlone
    /\ call' = [op |-> "has_tags", doc |-> ret.v[1], tags |-> req]
    /\ ret' = has_tags(ret.v[1], req)
    /\ UNCHANGED <<server, registries, dry_run, pc, paging, gets, patches, fs>>

\* doc.has_any_tags(req) on the document fetched alone
HasAnyTags(req) ==
    /\ FetchedAlone
    /\ call' = [op |-> "has_any_tags", doc |-> ret.v[1], tags |-> req]
    /\ ret' = has_any_tags(ret.v[1], req)
    /\ UNCHANGED <<server, registries, dry_run, pc, paging, gets, patches, fs>>

\* the criteria of get_docs that filter the fetched documents: tags by
\* identifier and by name, any_tags, title labels, alone and together
FilterChoices ==
    {[NoArgs EXCEPT !.tags = ts, !.any_tags = as, !.title_labels = tl] :
        ts \in {None, PyList(<<PyInt(1)>>), PyList(<<PyStr(sB), PyStr(sAb)>>)},
        as \in {None, PyList(<<PyInt(2), PyStr(sa)>>)},
        tl \in {None, PyStr(sb), PyStr(<<"a", ",", "B">>)}}

\* the tags the third document of the server may have: two or three
FilterDocTags == {<<2, 1>>, <<1, 3>>, <<3, 1, 2>>}

InitFilter ==
    \E ts \in FilterDocTags : InitWith(Pages0, [Docs0 EXCEPT ![3].tags = ts], {})

\* a session that refreshes the tags, fetches documents under filters and
\* asks documents for tags
NextFilter ==
    \/ Refresh("get_tags")
    \/ \E ok \in BOOLEAN : MultiPageGetStep(ok)
    \/ RefreshReturn
    \/ \E ids \in IdLists : \E args \in FilterChoices :
         GetDocsById(ids, [i \in DOMAIN ids |-> TRUE], args)
    \/ \E args \in FilterChoices : GetDocsQuery(args)
    \/ GetDocsReturn
    \/ \E req \in TagRequests : HasTags(req) \/ HasAnyTags(req)
    \/ Resume

SpecFilter == InitFilter /\ [][NextFilter]_vars

(* ------------------ the loop of multi_page_get, fairly run ------------- *)

\* the record of the call with the parity of the iterations that follow the
\* MaxGets recorded ones
Turned(c) ==
    [f \in DOMAIN c \cup {"more"} |->
        IF f # "more" THEN c[f]
        ELSE IF "more" \in DOMAIN c THEN ~c.more ELSE TRUE]

\* an iteration of the loop of multi_page_get after the MaxGets recorded
\* ones: the loop has no limit of iterations, so it GETs and follows the
\* cursor as before; the GET and its results are no longer recorded
MultiPageGetStepOn(ok) ==
    /\ pc = "paging"
    /\ Len(gets) >= MaxGets
    /\ pc' = IF NotDone(ok, PageOf(GetUrl(call.endpoint, next_url))) THEN "paging"
             ELSE "return"
    /\ next_url' = IF ok THEN PageOf(GetUrl(call.endpoint, next_url)).next ELSE next_url
    /\ call' = Turned(call)
    /\ UNCHANGED <<server, registries, dry_run, results, served, gets, patches, ret, fs>>

\* a refresh of the tags beside servers whose cursors may lead back to a page
NextPaging ==
    \/ Refresh("get_tags")
    \/ \E ok \in BOOLEAN : MultiPageGetStep(ok)
    \/ \E ok \in BOOLEAN : MultiPageGetStepOn(ok)
    \/ RefreshReturn
    \/ Resume

\* every GET of the loop is answered and the call returns once the loop has
\* ended: the loop and the return are not delayed forever
SpecPaging ==
    /\ InitRegistry
    /\ [][NextPaging]_vars
    /\ WF_vars(\E ok \in BOOLEAN : MultiPageGetStep(ok) \/ MultiPageGetStepOn(ok))
    /\ WF_vars(RefreshReturn)

(* ------------------ add_doc_tags under varied requests ----------------- *)

\* the tag arguments of add_doc_tags: a name, a slug that is no name, an
\* unknown name, and comma-separated lists with a repeated and an unknown tag
AddRequests ==
    { sa, sAb, sab, sZ, <<"a", ",", "a">>, <<"a", ",", "Z">>, <<"B", ",", "a">> }

\* a session that refreshes the tags and adds tags to documents
NextAddTags ==
    \/ Refresh("get_tags")
    \/ \E ok \in BOOLEAN : MultiPageGetStep(ok)
    \/ RefreshReturn
    \/ \E d \in DocIds : \E tag \in AddRequests : \E ok1, okG, okP \in BOOLEAN :
         AddDocTags(d, PyStr(tag), ok1, okG, okP)
    \/ Resume

SpecAddTags == InitFilter /\ [][NextAddTags]_vars

(* ============================== claims =============================== *)

(* ------------------------ claims on pagination ------------------------ *)

RECURSIVE Follow(_, _, _)
\* the results of the pages of table reached from page n by following the
\* cursors, at most fuel of them
Follow(table, n, fuel) ==
    IF fuel = 0 THEN << >>
    ELSE <<table[n].results>>
         \o (IF table[n].next = None THEN << >>
             ELSE Follow(table, table[n].next.v, fuel - 1))

\* the table of the endpoint the operation in progress pages through
CallTable == TableOf(call.endpoint.path)

\* multi_page_get has left its loop (the caller may have gone on since)
Returned == call.op \in RefreshOps /\ pc \in {"return", "done"}

AllOk == \A i \in DOMAIN gets : gets[i].ok

RECURSIVE SumLen(_)
\* the sum of the lengths of the sequences of ss
SumLen(ss) == IF ss = << >> THEN 0 ELSE Len(Head(ss)) + SumLen(Tail(ss))

\* C1: when every GET is answered with success and the cursor chain ends
\* after k pages, multi_page_get returns page1.results ++ ... ++ pagek.results:
\* the pages in cursor order, each page's records in the server's order, the
\* length being the sum of the page sizes.
C1_AllPagesConcatenated ==
    (Returned /\ AllOk) =>
        LET pages == Follow(CallTable, 1, Len(gets))
        IN /\ Len(pages) = Len(gets)
           /\ results = Concat(pages)
           /\ Len(results) = SumLen(pages)
           /\ \A i \in DOMAIN pages :
                SubSeq(results, SumLen(SubSeq(pages, 1, i - 1)) + 1,
                       SumLen(SubSeq(pages, 1, i))) = pages[i]

\* C1 witness: two non-empty pages, both fetched with success, and returned
C1_Witness ==
    /\ Returned /\ Len(CallTable) >= 2 /\ AllOk /\ pc = "done"
    /\ Len(gets) = 2
    /\ CallTable[1].results # << >>
    /\ CallTable[2].results # << >>
    /\ CallTable[1].results # CallTable[2].results
    /\ ret = PyList([i \in DOMAIN results |-> ItemFromResult(results[i])])

\* C2: when the GET of page j fails, pagination stops there and the
\* operation returns, without raising, the concatenation of the results of
\* pages 1..j-1 (nothing when j = 1); the failed GET is the last one issued.
C2_FailedPageTruncates ==
    /\ \A i \in DOMAIN gets : ~gets[i].ok => (i = Len(gets) /\ pc # "paging")
    /\ (Returned /\ ~AllOk) =>
        /\ results = Concat(Follow(CallTable, 1, Len(gets) - 1))
        /\ pc = "done" =>
             ret = PyList([i \in DOMAIN results |-> ItemFromResult(results[i])])

\* C2 witness: the second page fails after a non-empty first page, and the
\* operation has returned the first page's records
C2_Witness ==
    /\ Returned /\ Len(CallTable) >= 2 /\ pc = "done"
    /\ Len(gets) = 2 /\ gets[1].ok /\ ~gets[2].ok
    /\ CallTable[1].results # << >>
    /\ CallTable[2].results # << >>
    /\ ret.v # << >>

(* ------------------------ claims on name resolution ------------------- *)

\* lookup_item_id has just been called with a string on a refreshed registry
LookedUp ==
    /\ call.op = "lookup_item_id"
    /\ call.item.k = "str"
    /\ call.all_items # None

\* entity e is matched by string s: by its name, or by its slug lowercased
NamesEntity(s, e) == s = e.name \/ s = Lower(e.slug)

Matches(s, e) == e.name = s \/ e.slug = Lower(s)

NameThenSlug(s, reg) ==
    LET byName == {i \in DOMAIN reg : reg[i].name = s}
        bySlug == {i \in DOMAIN reg : reg[i].slug = Lower(s)}
        First(S) == CHOOSE i \in S : \A j \in S : i <= j
    IN IF byName # {} THEN PyInt(reg[First(byName)].id)
       ELSE IF bySlug # {} THEN PyInt(reg[First(bySlug)].id)
       ELSE None

\* C5: a string is matched case-sensitively against the names first, and
\* against the slugs (case-insensitively) only when no name equals it; when
\* one entity's name equals the string and an earlier entity's slug equals
\* the lowercased string, the name-matching entity's id is returned.
C5_NameMatchBeforeSlugMatch ==
    LookedUp => ret = NameThenSlug(call.item.v, call.all_items.v)

(* ------------------------ claims on get_docs -------------------------- *)

\* get_docs has returned a list of documents
GotDocs == pc = "done" /\ call.op = "get_docs" /\ ret.k = "list"

\* the tag registry the call used holds an entity for every tag of record r
Registered(r, reg) ==
    reg # None /\ \A i \in DOMAIN r.tags : \E j \in DOMAIN reg.v : reg.v[j].id = r.tags[i]

\* C3: with a tag registry present, the tag set of a materialized document is
\* an ordered sequence of entities, one per tag identifier of the raw record
\* and in the record's order: empty for a record without tags, of length one
\* for a record with one tag.
C3_TagsAreSequenceOfEntities ==
    GotDocs =>
        \A i \in DOMAIN ret.v :
            LET d == ret.v[i]
                r == srvDocs[d.id]
            IN Registered(r, call.regs.tags) =>
                /\ d.tags # None
                /\ d.tags.k = "list"
                /\ Len(d.tags.v) = Len(r.tags)
                /\ \A n \in DOMAIN r.tags : d.tags.v[n].id = r.tags[n]

\* a name was to be resolved against a registry that is still unset
Unrefreshed(op, reg) ==
    /\ pc = "done"
    /\ call.op = op
    /\ reg = None

\* C6: a name resolved before the registry of its kind was refreshed is
\* "no match": lookup_item_id returns None, and set_doc_correspondent,
\* set_doc_type and the query composer of get_docs go on without raising, as
\* they do for a name absent from a populated registry.
C6_UnsetRegistryIsNoMatch ==
    /\ (Unrefreshed("lookup_item_id", call.all_items) /\ call.item.k = "str")
          => ret = None
    /\ Unrefreshed("set_doc_correspondent", correspondents) => ret = None
    /\ Unrefreshed("set_doc_type", doc_types) => ret = None
    /\ (Unrefreshed("get_docs", call.regs.correspondents)
          /\ call.args.correspondent # None) => ~IsRaise(ret)

\* get_docs(doc_id=ids) alone has returned or raised
GotById == pc = "done" /\ call.op = "get_docs" /\ call.doc_id # << >>

\* the identifiers of ids whose GET succeeded, in the order of ids
OkIds(ids, oks) ==
    LET idx == SelectSeq([i \in DOMAIN ids |-> i], LAMBDA i : oks[i])
    IN [n \in DOMAIN idx |-> ids[idx[n]]]

\* C7: when the GET of some identifier fails, get_docs(doc_id=[d1..dn]) does
\* not raise; that document is absent and the documents of the identifiers
\* whose GET succeeded are returned in caller order.
C7_FailedGetIsAbsent ==
    (GotById /\ call.args = NoArgs) =>
        /\ ~IsRaise(ret)
        /\ [i \in DOMAIN ret.v |-> ret.v[i].id] = OkIds(call.doc_id, call.oks)

\* C8: get_docs(doc_id=[d1..dn], ...) issues exactly one GET per identifier,
\* in caller order, each to the single-document path of its identifier with no
\* query string and no page, and, when every GET succeeds and no secondary
\* filter is active, returns the documents in the caller's identifier order.
C8_OneGetPerIdentifier ==
    GotById =>
        /\ Len(gets) = Len(call.doc_id)
        /\ \A i \in DOMAIN gets :
             gets[i].url = [path |-> "documents", id |-> PyInt(call.doc_id[i]),
                            query |-> << >>, page |-> None]
        /\ ((\A i \in DOMAIN call.oks : call.oks[i])
              /\ call.args.tags = None /\ call.args.any_tags = None
              /\ call.args.title_labels = None)
             => /\ ret.k = "list"
                /\ [i \in DOMAIN ret.v |-> ret.v[i].id] = call.doc_id

(* ------------------------ claims on dry_run --------------------------- *)

\* the operations that may PATCH a document
MutOps == {"set_doc_correspondent", "set_doc_type", "set_doc_created_date",
           "set_doc_title", "add_doc_tags", "remove_doc_tags"}

\* what the recorded call c does on the present state when the client's
\* dry_run is dry
OutcomeOf(c, dry) ==
    CASE c.op = "set_doc_correspondent" ->
            SetDocCorrespondentOutcome(dry, c.doc_id, c.arg, c.oks[2], c.oks[3])
      [] c.op = "set_doc_type" ->
            SetDocTypeOutcome(dry, c.doc_id, c.arg, c.oks[2], c.oks[3])
      [] c.op = "set_doc_created_date" ->
            SetDocCreatedDateOutcome(dry, c.doc_id, c.arg, c.oks[2], c.oks[3])
      [] c.op = "set_doc_title" ->
            SetDocTitleOutcome(dry, c.doc_id, c.arg, c.oks[2], c.oks[3])
      [] c.op = "add_doc_tags" ->
            AddDocTagsOutcome(dry, c.doc_id, c.arg, c.oks[1], c.oks[2], c.oks[3])
      [] c.op = "remove_doc_tags" ->
            RemoveDocTagsOutcome(dry, c.doc_id, c.arg, c.oks[1], c.oks[2], c.oks[3])

\* an operation that may PATCH has run with dry_run set
RanDry == pc = "done" /\ call.op \in MutOps /\ call.dry_run

\* the call that has run would have sent a PATCH without dry_run
WouldPatch == OutcomeOf(call, FALSE).patches # << >>

MergeEnded == pc = "done" /\ call.op = "merge_docs"

\* the input files that merge_docs has deleted
Deleted == {f \in Range(call.files) : f \in call.before /\ f \notin fs}

\* C9: the clean-up of merge_docs is all-or-nothing: after a successful
\* assembly no input file exists and the output file exists; after a failed
\* assembly no input file has been deleted; at the end never only a proper
\* non-empty subset of the input files has been deleted.
C9_CleanupAllOrNothing ==
    MergeEnded =>
        /\ call.assembled =>
             /\ \A f \in Range(call.files) : f \notin fs
             /\ call.fn \in fs
        /\ ~call.assembled => Deleted = {}
        /\ ~(Deleted # {} /\ Deleted # Range(call.files))

\* a file name has been rendered, or the rendering has raised
Rendered == pc = "done" /\ call.op = "filename_with_pattern"

\* the document of the rendering has no tag
NoTags(d) == d.tags = None \/ (d.tags.k \in {"ints", "list"} /\ d.tags.v = << >>)

\* C11: rendering a file name never raises, whatever the pattern and the
\* materialized document, and a token whose data the document lacks (no
\* correspondent, no document type, no tags) contributes the empty string: a
\* pattern that is one such token renders as the empty string.
C11_AbsentDataRendersNothing ==
    Rendered =>
        /\ ~IsRaise(ret)
        /\ (call.pattern \in {<<"c">>, <<"c","c","c">>}
               /\ call.doc.correspondent = None) => ret = PyStr(<< >>)
        /\ (call.pattern = <<"d">> /\ call.doc.doc_type = None) => ret = PyStr(<< >>)
        /\ (call.pattern \in {<<"t">>, <<"t","t">>} /\ NoTags(call.doc))
               => ret = PyStr(<< >>)

\* the characters of the patterns that belong to no token and no bracket
Literals == {" ", "-"}

\* C12: a character outside brackets that is part of no token is passed to
\* the file name as it is and where it stands, a space included: a pattern of
\* such characters only renders as itself, and such a character before or
\* after a YYYY token stands before or after the year.
C12_LiteralsPassThrough ==
    (Rendered /\ ~IsRaise(ret)) =>
        /\ (\A i \in DOMAIN call.pattern : call.pattern[i] \in Literals)
              => ret.v = call.pattern
        /\ \A l \in Literals :
              /\ call.pattern = <<l, "Y", "Y", "Y", "Y">> => ret.v = <<l>> \o call.doc.year
              /\ call.pattern = <<"Y", "Y", "Y", "Y", l>> => ret.v = call.doc.year \o <<l>>

\* the pattern "[Bank]-<run of n ch>-YYYY-MM"
BankRun(ch, n) ==
    <<"[","B","a","n","k","]","-">> \o Run(ch, n) \o <<"-","Y","Y","Y","Y","-","M","M">>

\* the name cut to its first n characters, whole when n is 1
NameCut(name, n) ==
    IF n = 1 \/ n >= Len(name) THEN name ELSE SubSeq(name, 1, n)

\* what "[Bank]-<run>-YYYY-MM" is to render, the run standing for name
BankName(d, name, n) ==
    <<"B","a","n","k","-">> \o NameCut(name, n) \o <<"-">> \o d.year \o <<"-">> \o d.month

\* C20: on a document whose correspondent (document type) is an entity, a
\* run of N characters c (d), 1 <= N <= 32, outside brackets renders as the
\* first N characters of the entity's name when N >= 2 and as the whole name
\* when N = 1, alone and between a bracketed text and date tokens.
C20_RunTruncatesName ==
    Rendered =>
        \A n \in 1..MaxRunLen :
            /\ call.doc.correspondent.k = "item" =>
                 /\ call.pattern = Run("c", n)
                       => ret = PyStr(NameCut(call.doc.correspondent.v.name, n))
                 /\ call.pattern = BankRun("c", n)
                       => ret = PyStr(BankName(call.doc, call.doc.correspondent.v.name, n))
            /\ call.doc.doc_type.k = "item" =>
                 /\ call.pattern = Run("d", n)
                       => ret = PyStr(NameCut(call.doc.doc_type.v.name, n))
                 /\ call.pattern = BankRun("d", n)
                       => ret = PyStr(BankName(call.doc, call.doc.doc_type.v.name, n))

\* C20 witness: "[Bank]-ccc-YYYY-MM" on correspondent Alice, year 2020 and
\* month 02 has rendered "Bank-Ali-2020-02".
C20_Witness ==
    /\ Rendered
    /\ call.pattern = BankRun("c", 3)
    /\ call.doc.correspondent.k = "item"
    /\ call.doc.correspondent.v.name = sAlice
    /\ ret = PyStr(<<"B","a","n","k","-","A","l","i","-","2","0","2","0","-","0","2">>)

\* C20 witness of the single character: "c" has rendered the whole name and
\* a run as long as the longest token has rendered the whole name too
C20_WitnessWhole ==
    /\ Rendered
    /\ call.pattern = BankRun("d", MaxRunLen)
    /\ call.doc.doc_type.k = "item"
    /\ ret = PyStr(BankName(call.doc, sBill, 1))

\* the entities the server holds for a kind, page after page
ServerRecords(kind) ==
    Concat([i \in DOMAIN srvPages[kind] |-> srvPages[kind][i].results])

\* the registry that holds every entity of the server for a kind
WholeRegistry(kind) ==
    PyList([i \in DOMAIN ServerRecords(kind) |-> ItemFromResult(ServerRecords(kind)[i])])

\* C13: whenever a registry can be read it is the whole previous set (unset
\* before the first refresh) or the whole set of entities the server holds
\* for the kind, never a part of the server's set.
C13_RegistryIsWholeSet ==
    \A kind \in Endpoints : RegistryOf(kind) \in {None, WholeRegistry(kind)}

\* query_str has returned or raised
Composed == pc = "done" /\ call.op = "query_str"

\* the registry that resolves a criterion given by name is populated
PopulatedFor(item, reg) == (item # None /\ item.k = "str") => reg # None

\* the registries of the names of the call are populated (refreshed)
Populated ==
    /\ PopulatedFor(call.args.correspondent, call.regs.correspondents)
    /\ call.args.doc_type # None => PopulatedFor(call.args.doc_type, call.regs.doc_types)
    /\ call.args.tags # None =>
          \A i \in DOMAIN call.args.tags.v :
              PopulatedFor(call.args.tags.v[i], call.regs.tags)

\* the identifiers of the entities of reg that item names, by name or by
\* slug; an integer names itself
IdsNamed(item, reg) ==
    IF item.k = "int" THEN {item.v}
    ELSE {reg.v[i].id : i \in {j \in DOMAIN reg.v :
                                  \/ reg.v[j].name = item.v
                                  \/ reg.v[j].slug = Lower(item.v)}}

\* the number of places where needle occurs in hay
Occurrences(needle, hay) ==
    Cardinality({i \in 0..(Len(hay) - Len(needle)) :
                    \A j \in DOMAIN needle : hay[i + j] = needle[j]})

\* the query holds the parameter key=id, for exactly the entity item names,
\* and does not hold the key at all when item names none
EmittedIffResolved(key, item, reg, q) ==
    /\ \A n \in IdsNamed(item, reg) : IsSubstring(key \o <<"=">> \o DecStr(n), q)
    /\ IdsNamed(item, reg) = {} => ~IsSubstring(key, q)

\* the call gives a criterion that emits a parameter
SomethingEmitted ==
    \/ call.args.content # None
    \/ call.args.date # None /\ Len(RemoveChar(RemoveChar(call.args.date.v, "-"), "/")) >= 4
    \/ call.args.correspondent # None
          /\ IdsNamed(call.args.correspondent, call.regs.correspondents) # {}
    \/ call.args.doc_type # None /\ IdsNamed(call.args.doc_type, call.regs.doc_types) # {}
    \/ call.args.tags # None
          /\ \E i \in DOMAIN call.args.tags.v :
                IdsNamed(call.args.tags.v[i], call.regs.tags) # {}

\* C14: with populated registries query_str does not raise; a correspondent,
\* document type or tag name that resolves to no entity leaves its parameter
\* out, every criterion that resolves (and the terms and the date) is still
\* in the query, and the query is the empty string when nothing is emitted.
C14_UnresolvedCriterionOmitted ==
    (Composed /\ Populated) =>
        /\ ~IsRaise(ret)
        /\ call.args.correspondent # None =>
              EmittedIffResolved(CorrKey, call.args.correspondent,
                                 call.regs.correspondents, ret.v)
        /\ call.args.doc_type # None =>
              EmittedIffResolved(TypeKey, call.args.doc_type, call.regs.doc_types, ret.v)
        /\ call.args.tags # None =>
              /\ \A i \in DOMAIN call.args.tags.v :
                    \A n \in IdsNamed(call.args.tags.v[i], call.regs.tags) :
                        IsSubstring(TagsKey \o <<"=">> \o DecStr(n), ret.v)
              /\ Occurrences(TagsKey, ret.v)
                    = Cardinality({i \in DOMAIN call.args.tags.v :
                                      IdsNamed(call.args.tags.v[i], call.regs.tags) # {}})
        /\ call.args.content # None => IsSubstring(<<"q","u","e","r","y","=">>, ret.v)
        /\ (call.args.date # None
               /\ Len(RemoveChar(RemoveChar(call.args.date.v, "-"), "/")) >= 4)
              => IsSubstring(<<"c","r","e","a","t","e","d","_","_","y","e","a","r","=">>, ret.v)
        /\ ~SomethingEmitted => ret = PyStr(<< >>)

\* C14 witness: an unknown correspondent and an unknown tag beside a known
\* tag, against populated registries, have composed the query of the known
\* tag alone.
C14_Witness ==
    /\ Composed
    /\ call.regs.correspondents # None /\ call.regs.correspondents.v # << >>
    /\ call.regs.tags # None
    /\ call.args.correspondent = PyStr(sZ)
    /\ call.args.tags = PyList(<<PyStr(sZ), PyStr(sB)>>)
    /\ call.args.doc_type = None
    /\ ret = PyStr(<<"?","t","a","g","s","_","_","i","d","=","2">>)

\* C14 witness of the empty query: only unknown names were given and the
\* query is the empty string
C14_WitnessEmpty ==
    /\ Composed
    /\ call.regs.correspondents # None /\ call.regs.correspondents.v # << >>
    /\ call.regs.tags # None /\ call.regs.tags.v # << >>
    /\ call.args.correspondent = PyStr(sZ)
    /\ call.args.tags = PyList(<<PyStr(sZ)>>)
    /\ ret = PyStr(<< >>)

\* the texts ss joined with the separator sep between consecutive ones
JoinWith(ss, sep) ==
    Concat([i \in DOMAIN ss |-> IF i = 1 THEN ss[i] ELSE sep \o ss[i]])

\* C15: the comma-separated terms of content are emitted as one parameter
\* "query=" whose value is the terms joined with "%20" between consecutive
\* terms: n terms give n - 1 separators and the value does not end in "%20".
C15_TermsJoinedByPercent20 ==
    (Composed /\ ~IsRaise(ret) /\ call.args.content # None) =>
        /\ call.args.correspondent = None =>
              ret.v = <<"?","q","u","e","r","y","=">>
                      \o JoinWith(Split(call.args.content.v, ","), <<"%","2","0">>)
        /\ Occurrences(<<"%","2","0">>, ret.v)
              = Len(Split(call.args.content.v, ",")) - 1

\* the one identifier item names in reg
IdNamed(item, reg) == CHOOSE n \in IdsNamed(item, reg) : TRUE

\* the parameter "key=<id>"
Param(key, n) == key \o <<"=">> \o DecStr(n)

\* the call gives a correspondent and a list of tags that all resolve, and
\* nothing else
CorrespondentAndTags ==
    /\ call.args.correspondent # None
    /\ call.args.tags # None
    /\ call.args.doc_type = None /\ call.args.content = None /\ call.args.date = None
    /\ Populated
    /\ IdsNamed(call.args.correspondent, call.regs.correspondents) # {}
    /\ \A i \in DOMAIN call.args.tags.v :
          IdsNamed(call.args.tags.v[i], call.regs.tags) # {}

\* C16: with a resolvable correspondent and a list of resolvable tags the
\* query is "?correspondent__id=<id>" followed by one "tags__id=<id>" per
\* tag in the order of the list, the parameters separated by one "&" each
\* and no "&" at the end; no composed query has "&&" or a trailing "&"; with
\* no criterion at all the query is the empty string.
C16_CorrespondentThenTagsInOrder ==
    (Composed /\ ~IsRaise(ret)) =>
        /\ CorrespondentAndTags =>
              ret.v = <<"?">> \o JoinWith(
                  <<Param(CorrKey, IdNamed(call.args.correspondent,
                                           call.regs.correspondents))>>
                  \o [i \in DOMAIN call.args.tags.v |->
                        Param(TagsKey, IdNamed(call.args.tags.v[i], call.regs.tags))],
                  <<"&">>)
        /\ ~IsSubstring(<<"&", "&">>, ret.v)
        /\ ret.v # << >> => ret.v[Len(ret.v)] # "&"
        /\ call.args = QueryArgs(None, None, None, None, None) => ret.v = << >>

\* C16 witness: correspondent A and the tags B, Ab have composed
\* "?correspondent__id=1&tags__id=2&tags__id=1".
C16_Witness ==
    /\ Composed
    /\ call.args = QueryArgs(PyStr(sA), None, PyList(<<PyStr(sB), PyStr(sAb)>>), None, None)
    /\ ret = PyStr(<<"?">> \o CorrKey \o <<"=","1","&">> \o TagsKey \o <<"=","2","&">>
                   \o TagsKey \o <<"=","1">>)

\* the date of the call without its separators
Stripped == SelectSeq(call.args.date.v, LAMBDA x : x \notin {"-", "/"})

\* the date parameters of a stripped date: the year of at least 4 characters,
\* the month of at least 6, the day of at least 8
DateParams(dt) ==
    (IF Len(dt) >= 4
     THEN <<<<"c","r","e","a","t","e","d","_","_","y","e","a","r","=">> \o SubSeq(dt, 1, 4)>>
     ELSE << >>)
    \o (IF Len(dt) >= 6
        THEN <<<<"c","r","e","a","t","e","d","_","_","m","o","n","t","h","=">>
               \o SubSeq(dt, 5, 6)>>
        ELSE << >>)
    \o (IF Len(dt) >= 8
        THEN <<<<"c","r","e","a","t","e","d","_","_","d","a","y","=">> \o SubSeq(dt, 7, 8)>>
        ELSE << >>)

\* C17: of the date without "-" and "/", created__year (characters 1-4) is
\* emitted iff at least 4 characters remain, created__month (5-6) iff at
\* least 6, created__day (7-8) iff at least 8: a date alone composes exactly
\* these parameters, and beside other criteria the query ends with them.
C17_DatePartsByLength ==
    (Composed /\ ~IsRaise(ret) /\ call.args.date # None) =>
        /\ (call.args.tags = None /\ call.args.correspondent = None) =>
              ret.v = IF DateParams(Stripped) = << >> THEN << >>
                      ELSE <<"?">> \o JoinWith(DateParams(Stripped), <<"&">>)
        /\ DateParams(Stripped) # << >> =>
              /\ Len(ret.v) > Len(JoinWith(DateParams(Stripped), <<"&">>))
              /\ SubSeq(ret.v, Len(ret.v) - Len(JoinWith(DateParams(Stripped), <<"&">>)) + 1,
                        Len(ret.v)) = JoinWith(DateParams(Stripped), <<"&">>)
        /\ Occurrences(<<"c","r","e","a","t","e","d","_","_">>, ret.v)
              = Len(DateParams(Stripped))

\* C17 witness: "2019-07" has composed the year and the month and no day.
C17_Witness ==
    /\ Composed
    /\ call.args = QueryArgs(None, None, None, None, PyStr(<<"2","0","1","9","-","0","7">>))
    /\ ret = PyStr(<<"?","c","r","e","a","t","e","d","_","_","y","e","a","r","=",
                     "2","0","1","9","&","c","r","e","a","t","e","d","_","_",
                     "m","o","n","t","h","=","0","7">>)

\* has_tags or has_any_tags has returned or raised
AskedTags == pc = "done" /\ call.op \in {"has_tags", "has_any_tags"}

\* the tags asked for, one by one
Requested == IF call.tags.k = "list" THEN call.tags.v ELSE <<call.tags>>

\* the requested tag, an identifier or a name, is one of the entities es
PresentAmong(tag, es) ==
    \E i \in DOMAIN es : IF tag.k = "int" THEN es[i].id = tag.v ELSE es[i].name = tag.v

\* C18: on a document whose tag set is a sequence of entities, has_tags is
\* true iff every requested tag (an identifier or a name) is on the document
\* and has_any_tags is true iff at least one is.
C18_HasTagsAndHasAnyTagsOr ==
    (AskedTags /\ call.doc.tags.k = "list") =>
        /\ call.op = "has_tags" =>
              ret = PyBool(\A i \in DOMAIN Requested :
                              PresentAmong(Requested[i], call.doc.tags.v))
        /\ call.op = "has_any_tags" =>
              ret = PyBool(\E i \in DOMAIN Requested :
                              PresentAmong(Requested[i], call.doc.tags.v))

\* C18 witness: a document with the tags Ab and a but not B was asked for
\* {Ab, B}: has_tags has answered false.
C18_Witness ==
    /\ AskedTags
    /\ call.op = "has_tags"
    /\ call.doc.tags.k = "list"
    /\ {call.doc.tags.v[i].name : i \in DOMAIN call.doc.tags.v} = {sAb, sa}
    /\ call.tags = PyList(<<PyStr(sAb), PyStr(sB)>>)
    /\ ret = PyBool(FALSE)

\* C18 witness of the OR: the same document asked for {Ab, B} with
\* has_any_tags has answered true
C18_WitnessAny ==
    /\ AskedTags
    /\ call.op = "has_any_tags"
    /\ call.doc.tags.k = "list"
    /\ {call.doc.tags.v[i].name : i \in DOMAIN call.doc.tags.v} = {sAb, sa}
    /\ call.tags = PyList(<<PyStr(sAb), PyStr(sB)>>)
    /\ ret = PyBool(TRUE)

\* get_docs has returned or raised after the tags were refreshed in whole
FilteredDocs ==
    /\ pc = "done"
    /\ call.op = "get_docs"
    /\ call.regs.tags = WholeRegistry("tags")

\* the identifiers of the documents the call fetched, in the order fetched
FetchedIds ==
    IF call.doc_id # << >> THEN call.doc_id
    ELSE [i \in DOMAIN results |-> results[i].id]

\* the requested tag, an identifier or a name, is a tag of the server's
\* document d
TagOfRecord(tag, d) ==
    \E i \in DOMAIN srvDocs[d].tags :
        IF tag.k = "int" THEN srvDocs[d].tags[i] = tag.v
        ELSE \E j \in DOMAIN ServerRecords("tags") :
                /\ ServerRecords("tags")[j].id = srvDocs[d].tags[i]
                /\ ServerRecords("tags")[j].name = tag.v

\* every label of the comma-separated labels occurs in the title of the
\* server's document d, letter case apart
LabelsInTitle(labels, d) ==
    \A i \in DOMAIN Split(labels, ",") :
        IsSubstring(Lower(Split(labels, ",")[i]), Lower(srvDocs[d].title))

\* the server's document d passes every active filter of the call
PassesActive(d) ==
    /\ call.args.tags # None =>
          \A i \in DOMAIN call.args.tags.v : TagOfRecord(call.args.tags.v[i], d)
    /\ call.args.any_tags # None =>
          \E i \in DOMAIN call.args.any_tags.v : TagOfRecord(call.args.any_tags.v[i], d)
    /\ call.args.title_labels # None => LabelsInTitle(call.args.title_labels.v, d)

\* C19: get_docs returns exactly the fetched documents that pass every
\* active filter (tags: all requested tags; any_tags: at least one;
\* title_labels: all labels in the title, letter case apart), in the order
\* they were fetched; a document that fails a filter is dropped.
C19_ReturnsTheDocumentsThatPass ==
    FilteredDocs =>
        /\ ~IsRaise(ret)
        /\ [i \in DOMAIN ret.v |-> ret.v[i].id]
              = SelectSeq(FetchedIds, LAMBDA d : PassesActive(d))

\* the same for the calls that filter by title labels alone
C19_TitleLabelsAlone ==
    (FilteredDocs /\ call.args.tags = None /\ call.args.any_tags = None) =>
        /\ ~IsRaise(ret)
        /\ [i \in DOMAIN ret.v |-> ret.v[i].id]
              = SelectSeq(FetchedIds, LAMBDA d : PassesActive(d))

\* the index of the first ch in p, 0 when there is none
FirstOf(p, ch) ==
    IF \A i \in DOMAIN p : p[i] # ch THEN 0
    ELSE CHOOSE i \in DOMAIN p : p[i] = ch /\ \A j \in 1..(i - 1) : p[j] # ch

RECURSIVE BalancedFlat(_)
\* the brackets of p are balanced and not nested
BalancedFlat(p) ==
    IF FirstOf(p, "[") = 0 THEN FirstOf(p, "]") = 0
    ELSE /\ \A j \in 1..(FirstOf(p, "[") - 1) : p[j] # "]"
         /\ FirstOf(SubSeq(p, FirstOf(p, "[") + 1, Len(p)), "]") # 0
         /\ \A j \in 1..(FirstOf(SubSeq(p, FirstOf(p, "[") + 1, Len(p)), "]") - 1) :
               p[FirstOf(p, "[") + j] # "["
         /\ BalancedFlat(SubSeq(p, FirstOf(p, "[")
                                   + FirstOf(SubSeq(p, FirstOf(p, "[") + 1, Len(p)), "]")
                                   + 1, Len(p)))

RECURSIVE Segments(_)
\* a balanced pattern p cut into its stretches outside brackets and its
\* bracketed texts, in source order
Segments(p) ==
    IF FirstOf(p, "[") = 0 THEN <<[inside |-> FALSE, text |-> p]>>
    ELSE <<[inside |-> FALSE, text |-> SubSeq(p, 1, FirstOf(p, "[") - 1)],
           [inside |-> TRUE,
            text |-> SubSeq(p, FirstOf(p, "[") + 1,
                            FirstOf(p, "[")
                            + FirstOf(SubSeq(p, FirstOf(p, "[") + 1, Len(p)), "]") - 1)]>>
         \o Segments(SubSeq(p, FirstOf(p, "[")
                               + FirstOf(SubSeq(p, FirstOf(p, "[") + 1, Len(p)), "]")
                               + 1, Len(p)))

\* the file name of a balanced pattern from its segments: a bracketed text
\* as it is, a stretch outside brackets as it renders alone
FromSegments(d, segs) ==
    Concat([i \in DOMAIN segs |->
               IF segs[i].inside THEN segs[i].text
               ELSE filename_with_pattern(d, segs[i].text).v])

\* C21: for a pattern whose brackets are balanced and not nested, the text
\* of the k-th bracketed span stands in the file name as it is (spaces and
\* the letters c, d, t, Y, M, D included, none read as a token), between
\* what the stretches before and after the span render, once per span and
\* in source order.
C21_BracketTextVerbatim ==
    (Rendered /\ ~IsRaise(ret) /\ BalancedFlat(call.pattern)) =>
        ret.v = FromSegments(call.doc, Segments(call.pattern))

\* C21 witness: "[YY td]-[MM]YYYY[]" has rendered "YY td-MM2020".
C21_Witness ==
    /\ Rendered
    /\ call.pattern = <<"[","Y","Y"," ","t","d","]","-","[","M","M","]",
                        "Y","Y","Y","Y","[","]">>
    /\ ret = PyStr(<<"Y","Y"," ","t","d","-","M","M","2","0","2","0">>)

\* C22: the resolver and the tag filter agree: when lookup_item_id resolves
\* the tag string s to the identifier k against the tag registry, by name or
\* by slug, has_tags(s) on a document whose tags are a sequence of entities
\* is true iff the document carries the tag with identifier k.
C22_ResolverAndFilterAgree ==
    (AskedTags /\ call.op = "has_tags" /\ call.doc.tags.k = "list"
        /\ tags # None /\ Len(Requested) = 1 /\ Requested[1].k = "str"
        /\ lookup_item_id(Requested[1], tags) # None) =>
        ret = PyBool(\E i \in DOMAIN call.doc.tags.v :
                        call.doc.tags.v[i].id = lookup_item_id(Requested[1], tags).v)

\* C23: multi_page_get always eventually returns, whatever the server
\* answers, also when the cursors of the server's pages form a cycle.
C23_AlwaysReturns == (pc = "paging") ~> (pc = "return")

\* the loop is about to GET a page that the same call already got with
\* success: the server answering as before, the loop is where it was
C23_LoopIsBack ==
    /\ pc = "paging"
    /\ \E i \in DOMAIN gets :
          gets[i].ok /\ gets[i].url = GetUrl(call.endpoint, next_url)

\* add_doc_tags has run with dry_run off
AddedTags == pc = "done" /\ call.op = "add_doc_tags" /\ ~call.dry_run

\* the identifiers of the document of the call before the call, as the
\* server held them, in decimal
ExistingIds ==
    [i \in DOMAIN call.before[call.doc_id].tags |->
        DecStr(call.before[call.doc_id].tags[i])]

\* the identifiers the tag registry gives the requested tags
RequestedIds ==
    UNION {IdsNamed(PyStr(Split(call.arg.v, ",")[i]), tags) :
              i \in DOMAIN Split(call.arg.v, ",")}

\* C24: whenever add_doc_tags issues a PATCH with dry_run off, its tags are
\* the identifiers the document had, in their order, followed by identifiers
\* of requested tags the document lacked; no identifier is there twice and
\* each is the identifier of a tag of the registry, never the text of a
\* name that failed to resolve; and when the document already has every
\* requested tag no PATCH is issued.
C24_PatchExtendsTagsWithoutDuplicates ==
    (AddedTags /\ tags # None) =>
        /\ patches # << >> =>
              /\ Len(patches[1].data.value) > Len(ExistingIds)
              /\ SubSeq(patches[1].data.value, 1, Len(ExistingIds)) = ExistingIds
              /\ Distinct(patches[1].data.value)
              /\ \A i \in DOMAIN patches[1].data.value :
                    \E j \in DOMAIN tags.v :
                        patches[1].data.value[i] = DecStr(tags.v[j].id)
              /\ \A i \in (Len(ExistingIds) + 1)..Len(patches[1].data.value) :
                    \E k \in RequestedIds : patches[1].data.value[i] = DecStr(k)
        /\ (\A i \in DOMAIN Split(call.arg.v, ",") :
               /\ IdsNamed(PyStr(Split(call.arg.v, ",")[i]), tags) # {}
               /\ \A k \in IdsNamed(PyStr(Split(call.arg.v, ",")[i]), tags) :
                     \E n \in DOMAIN call.before[call.doc_id].tags :
                         call.before[call.doc_id].tags[n] = k)
              => patches = << >>

\* the same for the requests of one name that the registry knows by that name
C24_KnownNameAlone ==
    (AddedTags /\ tags # None /\ call.arg.v \in {sa, sAb}) =>
        /\ patches # << >> =>
              /\ patches[1].data.value
                    = ExistingIds \o <<DecStr(CHOOSE k \in RequestedIds : TRUE)>>
              /\ Distinct(patches[1].data.value)
        /\ (\E n \in DOMAIN call.before[call.doc_id].tags :
               call.before[call.doc_id].tags[n] \in RequestedIds
               /\ tags = WholeRegistry("tags")) => patches = << >>

====
